---- MODULE Spec2Model ----
(***************************************************************************)
(* kong: the snapshot store (data.go), the background daemon and the       *)
(* foreground accessors, modelled at the granularity of the system calls   *)
(* and remote calls the Go code makes.  SpecStore is the store under       *)
(* concurrent LoadData and WriteFile, SpecDaemon the daemon with its full  *)
(* refresh, SpecCommand the foreground commands, SpecStale Stale alone.    *)
(*                                                                         *)
(* The snapshot file is a sequence of gob messages: one type-descriptor    *)
(* message followed by one value message.  The advisory lock is a flock()  *)
(* on an open handle of the snapshot path itself, so it belongs to the     *)
(* inode the handle was opened on, not to the path.                        *)
(***************************************************************************)
EXTENDS Integers, Sequences, FiniteSets, TLC

(***************************************************************************)
(* Bounds and program constants                                            *)
(***************************************************************************)
NumProcs == 2
MaxInodes == 2
MaxClock == 40
MaxStamp == 2
Resolution == 2

refreshRate == 10
expiry == refreshRate * 2

Procs == 1..NumProcs
Inodes == 1..MaxInodes

(***************************************************************************)
(* Data (data.go:24-47)                                                    *)
(***************************************************************************)
NoSprint == [ID |-> 0, Name |-> "", State |-> ""]
NilMap == [nil |-> TRUE, kv |-> {}]
EmptyMap == [nil |-> FALSE, kv |-> {}]

\* Data{}: the zero value; its maps are nil.
ZeroData ==
  [jira |-> FALSE, Timestamp |-> 0, Issues |-> <<>>, IssueByKey |-> NilMap,
   Initiatives |-> <<>>, Epics |-> <<>>, SprintIssues |-> <<>>, BoardID |-> 0,
   Sprints |-> <<>>, SprintsByName |-> NilMap, ActiveSprint |-> NoSprint,
   Transitions |-> <<>>, LastIssueCreated |-> ""]

NewData == [ZeroData EXCEPT !.IssueByKey = EmptyMap, !.SprintsByName = EmptyMap]

\* An Issue and a Sprint, reduced to the key the indices use and the
\* revision of the remote state they were fetched from.
Issue(k, v) == [Key |-> k, Rev |-> v]
Sprint(n, v) == [ID |-> v, Name |-> n, State |-> "active"]

SeqRange(s) == {s[i] : i \in 1..Len(s)}

\* m[k] = v on a Go map whose entries are identified by keyOf.
IssuePut(m, v) == [m EXCEPT !.kv = {x \in @ : x.Key # v.Key} \cup {v}]
SprintPut(m, v) == [m EXCEPT !.kv = {x \in @ : x.Name # v.Name} \cup {v}]

RECURSIVE IssuePutAll(_, _)
IssuePutAll(m, s) ==
  IF s = <<>> THEN m ELSE IssuePutAll(IssuePut(m, Head(s)), Tail(s))

RECURSIVE SprintPutAll(_, _)
SprintPutAll(m, s) ==
  IF s = <<>> THEN m ELSE SprintPutAll(SprintPut(m, Head(s)), Tail(s))

(***************************************************************************)
(* Stale (data.go:49-53): timestamp.Before(now.Add(-expiry)).  The         *)
(* timestamp is in whole seconds, now and expiry in clock units.           *)
(***************************************************************************)
\* Before, were it to hold at equal instants too
BeforeOrAt(a, b) == a <= b
\* time.Time.Before
Before(a, b) == a < b
StaleAt(ts, now, unitsPerSec) ==
  Before(ts * unitsPerSec, now - expiry * unitsPerSec)
\* Stale, were the expiry one second shorter
StaleEarly(d, now) == StaleAt(d.Timestamp, now + 1, 1)
Stale(d, now) == StaleAt(d.Timestamp, now, 1)

(***************************************************************************)
(* encoding/gob as used by WriteFile and LoadData                          *)
(***************************************************************************)
\* Encode, were LastIssueCreated not transmitted
GobValueShort(d) ==
  [Timestamp |-> d.Timestamp, Issues |-> d.Issues,
   IssueByKey |-> d.IssueByKey.kv, Initiatives |-> d.Initiatives,
   Epics |-> d.Epics, SprintIssues |-> d.SprintIssues,
   BoardID |-> d.BoardID, Sprints |-> d.Sprints,
   SprintsByName |-> d.SprintsByName.kv, ActiveSprint |-> d.ActiveSprint,
   Transitions |-> d.Transitions, LastIssueCreated |-> ""]
\* What Encode puts into the value message: the exported fields.  The
\* unexported jira field is not transmitted, nil maps and empty maps are
\* both received as "no entries".
GobValue(d) ==
  [Timestamp |-> d.Timestamp, Issues |-> d.Issues,
   IssueByKey |-> d.IssueByKey.kv, Initiatives |-> d.Initiatives,
   Epics |-> d.Epics, SprintIssues |-> d.SprintIssues,
   BoardID |-> d.BoardID, Sprints |-> d.Sprints,
   SprintsByName |-> d.SprintsByName.kv, ActiveSprint |-> d.ActiveSprint,
   Transitions |-> d.Transitions, LastIssueCreated |-> d.LastIssueCreated]

NoValue == GobValue(ZeroData)

TypesMsg == [k |-> "types", v |-> NoValue]
ValueMsg(d) == [k |-> "value", v |-> GobValue(d)]
PartMsg == [k |-> "part", v |-> NoValue]
HoleMsg == [k |-> "hole", v |-> NoValue]
JunkMsg == [k |-> "junk", v |-> NoValue]

\* decoder.Decode(&data) on the bytes b (data.go:83-84).  A stream that is
\* empty, or that starts with zero bytes, ends with io.EOF; a stream that
\* ends inside a message, or after the type descriptors and before the
\* value, ends with io.ErrUnexpectedEOF; anything else that is not a value
\* is another decoding error.
GobDecode(b) ==
  IF b = <<>> THEN "EOF"
  ELSE IF b[1].k = "hole" THEN "EOF"
  ELSE IF b[1].k = "part" THEN "ErrUnexpectedEOF"
  ELSE IF b[1].k # "types" THEN "other"
  ELSE IF Len(b) = 1 THEN "ErrUnexpectedEOF"
  ELSE IF b[2].k = "value" THEN "ok"
  ELSE IF b[2].k = "part" THEN "ErrUnexpectedEOF"
  ELSE IF b[2].k = "hole" THEN "EOF"
  ELSE "other"

\* The fields a successful Decode stores into data, which LoadData has
\* initialised with NewData(): map entries are added to the existing map.
GobDecodeInto(data, b) ==
  LET v == b[2].v IN
  [data EXCEPT
     !.Timestamp = v.Timestamp, !.Issues = v.Issues,
     !.IssueByKey = [nil |-> FALSE, kv |-> data.IssueByKey.kv \cup v.IssueByKey],
     !.Initiatives = v.Initiatives, !.Epics = v.Epics,
     !.SprintIssues = v.SprintIssues, !.BoardID = v.BoardID,
     !.Sprints = v.Sprints,
     !.SprintsByName = [nil |-> FALSE, kv |-> data.SprintsByName.kv \cup v.SprintsByName],
     !.ActiveSprint = v.ActiveSprint, !.Transitions = v.Transitions,
     !.LastIssueCreated = v.LastIssueCreated]


(***************************************************************************)
(* State                                                                   *)
(***************************************************************************)
VARIABLES
  clock,    \* time.Now(), in seconds
  path,     \* the inode the snapshot path names, 0 when the file is missing
  ino,      \* inode -> [content, holder]: the bytes and the flock owner
  proc,     \* process -> its position in the operation it runs and its locals
  written,  \* history: the values of the writes whose encoding was completed
  loaders,  \* loader -> [st, got]: the tasks of the errgroup of Data.load
  grp,      \* the errgroup and the refresh it belongs to
  stl,      \* the inputs and the result of a call of Stale
  cli,      \* one run of the kong command line, up to its exit
  srch,     \* one call of Jira.search against the remote
  crt,      \* one call of Jira.CreateIssues and the remote's issues
  od,       \* the daemon of daemon.go: its loop, goroutines, Data and file
  ni,      \* one call of NewIssues: its batch and what it returns
  ed        \* one call of the editor: parseIssue or OpenSprintEditor

\* the snapshot store, the refresh and Stale
store == <<clock, path, ino, proc, written, loaders, grp, stl>>

\* the state outside them
others == <<cli, srch, crt, od, ni, ed>>

vars == <<clock, path, ino, proc, written, loaders, grp, stl, others>>

BlankInode == [content |-> <<>>, holder |-> 0]

\* pc: the position; op: the command the process runs; fh: the inode of the
\* flock handle; wfd, off: the inode and message offset of the file being
\* written; data: the Data the operation works on; err: the error it returns.
\* dec, removed, torn and calls record what the operation did: the result
\* of Decode, whether it removed the file, whether it read a file that
\* another process was in the middle of writing, and its remote calls.
\* get, d, out: the accessor a foreground command calls, its receiver (a
\* copy of data) and the value it returns.  fresh, pre and wrote record
\* whether the accessor found the snapshot fresh, the caller's Data when it
\* was called, and whether writeFile was called in this daemon cycle.
\* missing, lockerr: whether LoadData found no file at the path, whether
\* flock.Lock returned an error.  after: this LoadData was called after a
\* LoadData that removed the file as corrupt had returned.  prev: the Data
\* of the WriteFile that had taken the lock last and returned nil when this
\* LoadData was called (ZeroData when there is none).
\* last: this process is the one that took the lock for writing last.
IdleProc ==
  [pc |-> "idle", op |-> "none", fh |-> 0, wfd |-> 0, off |-> 0,
   data |-> ZeroData, err |-> "", dec |-> "", removed |-> FALSE,
   torn |-> FALSE, calls |-> {}, get |-> "", d |-> ZeroData,
   out |-> <<>>, fresh |-> FALSE, pre |-> ZeroData, wrote |-> FALSE,
   missing |-> FALSE, lockerr |-> FALSE, after |-> FALSE,
   prev |-> ZeroData, last |-> FALSE]

\* Inodes that neither the path nor an open handle refers to.
Referenced(pth, pr) ==
  {pth} \cup {pr[q].fh : q \in Procs} \cup {pr[q].wfd : q \in Procs}
FreeInodes == Inodes \ Referenced(path, proc)
AllocInode == CHOOSE i \in FreeInodes : \A j \in FreeInodes : i <= j

\* The kernel frees an inode with the last reference to it.
Scrub(inodes, pth, pr) ==
  [i \in Inodes |-> IF i \in Referenced(pth, pr) THEN inodes[i] ELSE BlankInode]

\* write(2) of one message at message offset off of an inode's content.
RECURSIVE Holes(_)
Holes(n) == IF n <= 0 THEN <<>> ELSE <<HoleMsg>> \o Holes(n - 1)
WriteAt(content, off, msg) ==
  IF off < Len(content)
    THEN [content EXCEPT ![off + 1] = msg]
    ELSE content \o Holes(off - Len(content)) \o <<msg>>

SetProc(p, r) == proc' = [proc EXCEPT ![p] = r]

(***************************************************************************)
(* Inputs of the store operations                                          *)
(***************************************************************************)
BoardA == 7

Snapshot(ts, issues) ==
  [NewData EXCEPT !.Timestamp = ts, !.Issues = issues,
                  !.IssueByKey = IssuePutAll(EmptyMap, issues)]

\* a complete snapshot of revision 1 of the remote
SnapA ==
  [Snapshot(MaxClock - expiry - refreshRate, <<Issue("KONG-1", 1)>>) EXCEPT
     !.Epics = <<Issue("EPIC-1", 1)>>, !.Initiatives = <<Issue("INIT-1", 1)>>,
     !.SprintIssues = <<Issue("KONG-1", 1)>>, !.BoardID = BoardA,
     !.Sprints = <<Sprint("Sprint 1", 1)>>,
     !.SprintsByName = SprintPutAll(EmptyMap, <<Sprint("Sprint 1", 1)>>)]
SnapB == [Snapshot(MaxClock - refreshRate, <<Issue("KONG-2", 2)>>)
            EXCEPT !.LastIssueCreated = "KONG-2"]
\* the Snapshot process p writes: the processes write different Snapshots
KeyOf(p) == <<"KONG-2", "KONG-3", "KONG-4", "KONG-5">>[p]
WriteInput(p) == [SnapB EXCEPT !.LastIssueCreated = KeyOf(p)]
WriteInputs == {WriteInput(p) : p \in Procs}

\* What an earlier run can have left at the snapshot path: a zero-length
\* file, a file another program put there, a write that was cut short, or a
\* complete snapshot.
InitContents ==
  {<<>>, <<JunkMsg>>, <<TypesMsg, PartMsg>>, <<TypesMsg, ValueMsg(SnapA)>>}

(***************************************************************************)
(* flock.Lock (gofrs/flock): open the path with O_CREATE, then flock(2)    *)
(* the handle with LOCK_EX, blocking.                                      *)
(***************************************************************************)
\* open(path, O_CREATE): the path and the inode table afterwards
OpenCreate ==
  IF path = 0
    THEN [path |-> AllocInode,
          ino |-> [ino EXCEPT ![AllocInode] = BlankInode]]
    ELSE [path |-> path, ino |-> ino]
CanOpenCreate == path # 0 \/ FreeInodes # {}

(***************************************************************************)
(* LoadData (data.go:57-105)                                               *)
(***************************************************************************)
\* LoadData, were it to return nil whatever initJira returned
LoadDataReturnNil(r, data, err) ==
  [r EXCEPT !.fh = 0, !.data = data, !.err = "", !.pc = "done"]
\* Where the process goes when LoadData returns (data, err): NewDaemon
\* (daemon:23-31), the commands (cmd/kong.go:61-69) and CreateIssues
\* (jira.go:216-219) give up on an error.
LoadDataReturn(r, data, err) ==
  [r EXCEPT !.fh = 0, !.data = data, !.err = err,
            !.pc = IF err # "" THEN "done"
                   ELSE IF r.op \in {"daemon", "blocking"} THEN "dm_loop"
                   ELSE IF r.op = "command" THEN "gx_check"
                   ELSE IF r.op = "create" THEN "cr_set"
                   ELSE "done"]

\* data := NewData(); data.isMissing() (os.Stat): the first step of LoadData
LdStat(r) ==
  [r EXCEPT !.data = NewData, !.missing = (path = 0),
            !.pc = IF path = 0 THEN "ld_initjira" ELSE "ld_open"]

\* flock.New(path); flock.Lock(): opening the handle
LdOpen(p) ==
  /\ proc[p].pc = "ld_open"
  /\ \/ /\ CanOpenCreate
        /\ path' = OpenCreate.path
        /\ ino' = OpenCreate.ino
        /\ SetProc(p, [proc[p] EXCEPT !.pc = "ld_flock", !.fh = path'])
     \/ \* the lock cannot be taken: return data, nil
        /\ SetProc(p, LoadDataReturn([proc[p] EXCEPT !.lockerr = TRUE],
                                     proc[p].data, ""))
        /\ UNCHANGED <<path, ino>>
  /\ UNCHANGED <<clock, written, loaders, grp, stl, others>>

\* flock.Lock(): flock(fd, LOCK_EX) blocks until the inode is unlocked
LdFlock(p) ==
  /\ proc[p].pc = "ld_flock"
  /\ ino[proc[p].fh].holder = 0
  /\ ino' = [ino EXCEPT ![proc[p].fh].holder = p]
  /\ SetProc(p, [proc[p] EXCEPT !.pc = "ld_read"])
  /\ UNCHANGED <<clock, path, written, loaders, grp, stl, others>>

\* A write to inode i that has truncated the file and not yet written the value.
MidWrite(i) ==
  \E q \in Procs : proc[q].wfd = i /\ proc[q].pc \in {"wf_types", "wf_value"}

\* os.ReadFile(path); decoder.Decode(&data); data.Stale()
LdRead(p) ==
  /\ proc[p].pc = "ld_read"
  /\ IF path = 0
       THEN SetProc(p, [proc[p] EXCEPT !.pc = "ld_unlock", !.err = "ReadFile"])
       ELSE LET b == ino[path].content
                res == GobDecode(b)
                data == GobDecodeInto(proc[p].data, b)
                r == [proc[p] EXCEPT !.dec = res, !.torn = MidWrite(path)]
            IN  IF res = "ok"
                  THEN SetProc(p, [r EXCEPT !.data = data,
                         !.pc = IF Stale(data, clock) THEN "ld_initjira"
                                ELSE "ld_unlock"])
                ELSE IF res = "ErrUnexpectedEOF"
                  THEN SetProc(p, [r EXCEPT !.pc = "ld_remove"])
                ELSE SetProc(p, [r EXCEPT !.pc = "ld_unlock",
                                          !.err = "gob.Decode"])
  /\ UNCHANGED <<clock, path, ino, written, loaders, grp, stl, others>>

\* os.Remove(path) of the file found corrupt; return Data{}
LdRemove(p) ==
  /\ proc[p].pc = "ld_remove"
  /\ IF path = 0
       THEN /\ SetProc(p, [proc[p] EXCEPT !.pc = "ld_unlock",
                                          !.data = ZeroData, !.err = "Remove"])
            /\ UNCHANGED <<path, ino>>
       ELSE /\ path' = 0
            /\ SetProc(p, [proc[p] EXCEPT !.pc = "ld_unlock", !.removed = TRUE,
                                          !.data = ZeroData, !.err = ""])
            /\ ino' = Scrub(ino, path', proc')
  /\ UNCHANGED <<clock, written, loaders, grp, stl, others>>

\* data.initJira(): NewJira loads the configuration and asks the remote for
\* the current user; on the stale path it runs before the deferred unlock.
LdInitJira(p) ==
  /\ proc[p].pc = "ld_initjira"
  /\ \E ok \in BOOLEAN :
       LET r == [proc[p] EXCEPT !.calls = @ \cup {"GetSelf"},
                   !.data = [@ EXCEPT !.jira = ok],
                   !.err = IF ok THEN "" ELSE "NewJira"]
       IN  IF proc[p].fh = 0
             THEN SetProc(p, LoadDataReturn(r, r.data, r.err))
             ELSE SetProc(p, [r EXCEPT !.pc = "ld_unlock"])
  /\ UNCHANGED <<clock, path, ino, written, loaders, grp, stl, others>>

\* return: the deferred flock.Unlock() releases the lock and closes the handle
LdUnlock(p) ==
  /\ proc[p].pc = "ld_unlock"
  /\ SetProc(p, LoadDataReturn(proc[p], proc[p].data, proc[p].err))
  /\ ino' = Scrub([ino EXCEPT ![proc[p].fh].holder = 0], path, proc')
  /\ UNCHANGED <<clock, path, written, loaders, grp, stl, others>>

(***************************************************************************)
(* Data.WriteFile (data.go:295-319), Daemon.writeFile (daemon:52-76)       *)
(***************************************************************************)
\* Where the process goes when WriteFile returns err: Run (daemon:35-42)
\* prints the error of loop and sleeps.
WriteFileReturn(r, err) ==
  [r EXCEPT !.fh = 0, !.wfd = 0, !.err = err,
            !.pc = IF r.op = "daemon" THEN "dm_sleep" ELSE "done"]

\* flock.New(path); flock.Lock(): opening the handle
WfOpen(p) ==
  /\ proc[p].pc = "wf_open"
  /\ \/ /\ CanOpenCreate
        /\ path' = OpenCreate.path
        /\ ino' = OpenCreate.ino
        /\ SetProc(p, [proc[p] EXCEPT !.pc = "wf_flock", !.fh = path',
                                      !.wrote = TRUE])
     \/ /\ SetProc(p, WriteFileReturn([proc[p] EXCEPT !.wrote = TRUE,
                                                       !.lockerr = TRUE],
                                       "Lock"))
        /\ UNCHANGED <<path, ino>>
  /\ UNCHANGED <<clock, written, loaders, grp, stl, others>>

\* flock.Lock(): flock(fd, LOCK_EX) blocks until the inode is unlocked
WfFlock(p) ==
  /\ proc[p].pc = "wf_flock"
  /\ ino[proc[p].fh].holder = 0
  /\ ino' = [ino EXCEPT ![proc[p].fh].holder = p]
  /\ proc' = [q \in Procs |->
                IF q = p THEN [proc[p] EXCEPT !.pc = "wf_create", !.last = TRUE]
                         ELSE [proc[q] EXCEPT !.last = FALSE]]
  /\ UNCHANGED <<clock, path, written, loaders, grp, stl, others>>

\* os.Create(path): open with O_CREATE|O_TRUNC
WfCreate(p) ==
  /\ proc[p].pc = "wf_create"
  /\ \/ /\ CanOpenCreate
        /\ path' = OpenCreate.path
        /\ ino' = [OpenCreate.ino EXCEPT ![path'].content = <<>>]
        /\ SetProc(p, [proc[p] EXCEPT !.pc = "wf_types", !.wfd = path',
                                      !.off = 0])
     \/ /\ SetProc(p, [proc[p] EXCEPT !.pc = "wf_return", !.err = "Create"])
        /\ UNCHANGED <<path, ino>>
  /\ UNCHANGED <<clock, written, loaders, grp, stl, others>>

\* encoder.Encode(d): the type descriptors; when the write fails Encode
\* returns the error and WriteFile returns it without closing the file
WfTypes(p) ==
  /\ proc[p].pc = "wf_types"
  /\ \/ /\ ino' = [ino EXCEPT ![proc[p].wfd].content =
                       WriteAt(@, proc[p].off, TypesMsg)]
        /\ SetProc(p, [proc[p] EXCEPT !.pc = "wf_value", !.off = @ + 1])
     \/ /\ SetProc(p, [proc[p] EXCEPT !.pc = "wf_return", !.err = "Encode"])
        /\ UNCHANGED ino
  /\ UNCHANGED <<clock, path, written, loaders, grp, stl, others>>

\* encoder.Encode(d): the value, then file.Close() is all that is left; a
\* write that fails has written a part of the value
WfValue(p) ==
  /\ proc[p].pc = "wf_value"
  /\ \/ /\ ino' = [ino EXCEPT ![proc[p].wfd].content =
                       WriteAt(@, proc[p].off, ValueMsg(proc[p].data))]
        /\ SetProc(p, [proc[p] EXCEPT !.pc = "wf_return", !.off = @ + 1])
        /\ written' = written \cup {GobValue(proc[p].data)}
     \/ /\ ino' = [ino EXCEPT ![proc[p].wfd].content =
                       WriteAt(@, proc[p].off, PartMsg)]
        /\ SetProc(p, [proc[p] EXCEPT !.pc = "wf_return", !.err = "Encode"])
        /\ UNCHANGED written
  /\ UNCHANGED <<clock, path, loaders, grp, stl, others>>

\* WriteFile, were the unlock skipped on the error returns
WfReturnLocked(p) ==
  /\ proc[p].pc = "wf_return"
  /\ SetProc(p, [WriteFileReturn(proc[p], proc[p].err) EXCEPT
                   !.fh = IF proc[p].err = "" THEN 0 ELSE proc[p].fh])
  /\ ino' = IF proc[p].err = ""
              THEN Scrub([ino EXCEPT ![proc[p].fh].holder = 0], path, proc')
              ELSE ino
  /\ UNCHANGED <<clock, path, written, loaders, grp, stl, others>>
\* return file.Close(), or return err after a failed Create or Encode; the
\* deferred flock.Unlock() releases the lock and closes the handle
WfReturn(p) ==
  /\ proc[p].pc = "wf_return"
  /\ SetProc(p, WriteFileReturn(proc[p], proc[p].err))
  /\ ino' = Scrub([ino EXCEPT ![proc[p].fh].holder = 0], path, proc')
  /\ UNCHANGED <<clock, path, written, loaders, grp, stl, others>>

(***************************************************************************)
(* Process invocations of the store                                        *)
(***************************************************************************)
\* LoadData of process q has returned after it removed the file as corrupt
FoundCorrupt(q) ==
  proc[q].op = "LoadData" /\ proc[q].pc = "done" /\ proc[q].removed

\* WriteFile of process p has returned nil
WroteFile(p) ==
  proc[p].op = "WriteFile" /\ proc[p].pc = "done" /\ proc[p].err = ""

\* the Data of the WriteFile that took the lock last, if it returned nil
LastWritten ==
  IF \E q \in Procs : WroteFile(q) /\ proc[q].last
    THEN proc[CHOOSE q \in Procs : WroteFile(q) /\ proc[q].last].data
    ELSE ZeroData

\* a process calls LoadData()
StartLoadData(p) ==
  /\ proc[p].pc \in {"idle", "done"}
  /\ SetProc(p, LdStat([IdleProc EXCEPT !.op = "LoadData",
         !.after = \E q \in Procs : FoundCorrupt(q),
         !.prev = LastWritten]))
  /\ UNCHANGED <<clock, path, ino, written, loaders, grp, stl, others>>

\* a process calls d.WriteFile()
StartWriteFile(p) ==
  /\ proc[p].pc \in {"idle", "done"}
  /\ \E d \in WriteInputs :
       /\ d = WriteInput(p)
       /\ SetProc(p, [IdleProc EXCEPT !.pc = "wf_open", !.op = "WriteFile",
                                      !.data = d])
  /\ UNCHANGED <<clock, path, ino, written, loaders, grp, stl, others>>

\* time passes
Tick ==
  /\ clock + refreshRate <= MaxClock
  /\ clock' = clock + refreshRate
  /\ UNCHANGED <<path, ino, proc, written, loaders, grp, stl, others>>

InitFile ==
  \/ /\ path = 0
     /\ ino = [i \in Inodes |-> BlankInode]
     /\ written = {}
  \/ /\ path = 1
     /\ \E c \in InitContents :
          /\ ino = [i \in Inodes |-> IF i = 1 THEN [content |-> c, holder |-> 0]
                                     ELSE BlankInode]
          /\ written = IF GobDecode(c) = "ok" THEN {c[2].v} ELSE {}

LoaderNames ==
  {"issues", "epics", "initiatives", "boardID", "sprintIssues", "sprints"}
IdleLoaders == [l \in LoaderNames |-> [st |-> "idle", got |-> 0]]
IdleGroup == [err |-> "", ret |-> "none", tsBefore |-> 0, retAt |-> 0,
              cancelled |-> FALSE]
IdleStale == [ts |-> 0, now |-> 0, out |-> FALSE, done |-> FALSE]

\* no command line has been started
IdleCli == [pc |-> "idle", cmd |-> "", cfg |-> FALSE, snap |-> "",
            remote |-> FALSE, k |-> 0, err |-> <<>>, printed |-> <<>>,
            status |-> 0]

\* no search has been started.  total: the matching issues the remote
\* holds, numbered in the order it returns them; bad: the one NewIssue
\* rejects, 0 for none; reqs, answers: the page requests made and what the
\* remote answered; startAt, result: the locals of search.
IdleSrch == [pc |-> "idle", total |-> 0, visible |-> 0, maxResults |-> 0,
             bad |-> 0,
             startAt |-> 0, result |-> <<>>, reqs |-> <<>>,
             answers |-> <<>>, out |-> <<>>, err |-> ""]

\* no CreateIssues has been started.  tasks: the goroutines of the errgroup;
\* cancelled: the context the errgroup derived is done; created: the issues
\* the remote has created; confirmed: the "Created" lines printed; last:
\* lastIssueCreated; persisted: LastIssueCreated in the snapshot file, 0
\* for the value it had before the call.
IdleCrt == [pc |-> "idle", tasks |-> <<>>, cancelled |-> FALSE, err |-> "",
            created |-> {}, confirmed |-> 0, last |-> 0, persisted |-> 0]

\* the daemon of daemon.go has not been started.  cycle: the turn of the
\* loop; running: the loader goroutines that have not returned, each with
\* the cycle that launched it; data: for every category the cycle whose
\* goroutine stored it, 0 for none; ts: the cycle that stamped Timestamp;
\* k: the categories the encoder has written; file: what the file holds;
\* raced: a goroutine has stored a category while the file was encoded.
IdleOd == [pc |-> "idle", cycle |-> 0, running |-> {}, data |-> <<0, 0, 0, 0>>,
           ts |-> 0, k |-> 0, file |-> <<>>, raced |-> FALSE]

\* NewIssues has not been called
IdleNi == [pc |-> "idle", batch |-> <<>>, out |-> <<>>, err |-> <<>>]

IdleEd == [pc |-> "idle", op |-> "", in |-> <<>>, out |-> <<>>, err |-> "",
           calls |-> <<>>]

IdleOthers ==
  /\ cli = IdleCli /\ srch = IdleSrch /\ crt = IdleCrt /\ od = IdleOd
  /\ ni = IdleNi
  /\ ed = IdleEd

InitStore ==
  /\ clock = MaxClock - refreshRate
  /\ proc = [p \in Procs |-> IdleProc]
  /\ InitFile
  /\ loaders = IdleLoaders /\ grp = IdleGroup /\ stl = IdleStale
  /\ IdleOthers

\* the steps of LoadData and of WriteFile
StoreStep(p) ==
  \/ LdOpen(p) \/ LdFlock(p) \/ LdRead(p) \/ LdRemove(p)
  \/ LdInitJira(p) \/ LdUnlock(p)
  \/ WfOpen(p) \/ WfFlock(p) \/ WfCreate(p) \/ WfTypes(p) \/ WfValue(p)
  \/ WfReturn(p)

\* the processes that call LoadData and WriteFile
StoreProcs == {1, 2}

NextStore ==
  \/ Tick
  \/ \E p \in StoreProcs :
       StartLoadData(p) \/ StartWriteFile(p) \/ StoreStep(p)

SpecStore == InitStore /\ [][NextStore]_vars

(***************************************************************************)
(* WriteFile and LoadData one after the other: an operation is called      *)
(* when no other operation is running                                      *)
(***************************************************************************)
Quiet == \A q \in Procs : proc[q].pc \in {"idle", "done"}

CallLoadData(p) == Quiet /\ StartLoadData(p)

CallWriteFile(p) == Quiet /\ StartWriteFile(p)

InitSequential == InitStore

NextSequential ==
  \/ Tick
  \/ \E p \in StoreProcs :
       CallLoadData(p) \/ CallWriteFile(p) \/ StoreStep(p)

SpecSequential == InitSequential /\ [][NextSequential]_vars

(***************************************************************************)
(* The snapshot store under concurrent processes                           *)
(***************************************************************************)
\* p holds the advisory lock: it is between flock.Lock() and flock.Unlock()
InLocked(p) == proc[p].fh # 0 /\ ino[proc[p].fh].holder = p

\* p is in the part of WriteFile that truncates and encodes the file
Writing(p) == proc[p].pc \in {"wf_create", "wf_types", "wf_value"}

\* LoadData of p has returned
Loaded(p) == proc[p].op = "LoadData" /\ proc[p].pc = "done"

IsEmpty(d) == GobValue(d) = NoValue

\* C1: every LoadData that returns a non-empty snapshot returns the content
\* of one completed write, and no LoadData reads the file while a write to
\* it is in progress (truncated, value not yet encoded).
C1_NoTornRead ==
  \A p \in Procs :
    /\ ~proc[p].torn
    /\ (Loaded(p) /\ proc[p].err = "" /\ ~IsEmpty(proc[p].data))
          => GobValue(proc[p].data) \in written

\* C2: two processes are never inside their locked sections at the same
\* time when one of them is writing the file.
C2_MutualExclusion ==
  \A p, q \in Procs :
    (p # q /\ InLocked(p) /\ InLocked(q)) => ~(Writing(p) \/ Writing(q))

\* C10: whenever the content LoadData read fails to decode, LoadData has
\* deleted the file and returns an empty Snapshot and no error.
C10_CorruptSelfHeal ==
  \A p \in Procs :
    (Loaded(p) /\ proc[p].dec \notin {"", "ok"})
      => (proc[p].removed /\ proc[p].err = "" /\ IsEmpty(proc[p].data))

\* no WriteFile has touched the file so far
NoWrite == written = {} /\ \A q \in Procs : proc[q].op # "WriteFile"

\* C11: a LoadData called after a LoadData that removed the file as corrupt
\* had returned, with no write in between, finds no file at the path and
\* does not fail to decode one.
C11_MissingAfterCorrupt ==
  \A p \in Procs :
    (Loaded(p) /\ proc[p].after /\ NoWrite)
      => (proc[p].missing /\ proc[p].dec = "")

WriteReturned(p) ==
  \/ proc[p].op = "WriteFile" /\ proc[p].pc = "done"
  \/ proc[p].op = "daemon" /\ proc[p].pc = "dm_sleep" /\ proc[p].wrote

\* C14: when WriteFile has returned, with or without an error, the process
\* holds no lock and has no lock handle open.
C14_WriteReleasesLock ==
  \A p \in Procs :
    WriteReturned(p)
      => (proc[p].fh = 0 /\ \A i \in Inodes : ino[i].holder # p)

C14_Witness ==
  \E p \in Procs :
    /\ WriteReturned(p) /\ proc[p].err = "Encode"
    /\ proc[p].fh = 0 /\ \A i \in Inodes : ino[i].holder # p

\* every process is between operations, and every WriteFile among the
\* operations that returned last returned nil
WritesCompleted ==
  \A q \in Procs :
    /\ proc[q].pc \in {"idle", "done"}
    /\ proc[q].op = "WriteFile" => proc[q].err = ""

\* C16: when the writes have completed, the file holds the two messages of
\* the WriteFile that took the lock last and nothing else.
C16_LastWriteWins ==
  \A p \in Procs :
    (WroteFile(p) /\ proc[p].last /\ WritesCompleted)
      => /\ path # 0
         /\ ino[path].content = <<TypesMsg, ValueMsg(proc[p].data)>>

\* the persisted fields of a Data
Persisted(d) ==
  <<d.Timestamp, d.Issues, d.Epics, d.Initiatives, d.SprintIssues,
    d.Sprints, d.IssueByKey.kv, d.SprintsByName.kv, d.BoardID,
    d.LastIssueCreated>>

\* LoadData of process p has returned, it was called right after a
\* WriteFile of a Snapshot that is still not stale, and took the lock
ReadBack(p) ==
  /\ Loaded(p) /\ ~proc[p].lockerr
  /\ proc[p].prev # ZeroData /\ ~Stale(proc[p].prev, clock)

C15_LockErrorReturned ==
  \A p \in Procs :
    (proc[p].lockerr /\ (Loaded(p) \/ WriteReturned(p)))
      => proc[p].err = "Lock"

(***************************************************************************)
(* The remote: what the tracker holds at revision v.  The snapshot an      *)
(* earlier run left holds revision 1, the remote is at revision Rev.       *)
\* process p is at a remote call: GetSelf of NewJira in LoadData, the
\* requests of a refresh, the requests of an accessor
RemoteInFlight(p) ==
  proc[p].pc \in {"ld_initjira", "dm_wait", "gx_board", "gx_load"}

\* C38: no process has a remote call in flight while it holds the lock on
\* the snapshot file.
C38_NoLockDuringRemote ==
  \A p \in Procs : RemoteInFlight(p) => ~InLocked(p)

(***************************************************************************)
Rev == 2
RemoteIssues(v) ==
  IF v = 1 THEN <<Issue("KONG-1", 1)>> ELSE <<Issue("KONG-2", v)>>
RemoteEpics(v) == <<Issue("EPIC-1", v)>>
RemoteInitiatives(v) == <<Issue("INIT-1", v)>>
RemoteSprintIssues(v) == <<Issue("KONG-1", v)>>
RemoteSprints(v) ==
  IF v = 1 THEN <<Sprint("Sprint 1", 1)>> ELSE <<Sprint("Sprint 2", v)>>

\* The answers to the board lookup: a board, an error status, or a
\* successful answer that lists no board.
BoardAnswers == {"board", "error", "empty"}

(***************************************************************************)
(* The loaders (data.go:165-228)                                           *)
(***************************************************************************)
\* for _, issue := range issues { d.IssueByKey[issue.Key] = issue }
\* d.Issues = issues
loadIssues(d, issues) ==
  [d EXCEPT !.IssueByKey = IssuePutAll(@, issues), !.Issues = issues]
loadEpics(d, epics) == [d EXCEPT !.Epics = epics]
loadInitiatives(d, initiatives) == [d EXCEPT !.Initiatives = initiatives]
loadBoardID(d, boardID) == [d EXCEPT !.BoardID = boardID]
loadSprintIssues(d, issues) == [d EXCEPT !.SprintIssues = issues]
\* for _, sprint := range sprints { d.SprintsByName[sprint.Name] = sprint }
\* d.Sprints = sprints
loadSprints(d, sprints) ==
  [d EXCEPT !.SprintsByName = SprintPutAll(@, sprints), !.Sprints = sprints]

\* An assignment to an entry of a nil map panics.
NilMapWrite(m, s) == m.nil /\ s # <<>>

\* result.Values[0].ID (jira.go:175) panics when the answer lists no board.
IndexPanic == "index out of range"
NilMapPanic == "assignment to entry in nil map"
NilRespPanic == "nil pointer dereference"

\* errgroup: Wait returns the first non-nil error of the tasks.
GroupError(g, e) == [g EXCEPT !.err = IF @ = "" THEN e ELSE @]

LoaderError(l) ==
  CASE l = "issues" -> "ListIssues"
    [] l = "epics" -> "ListEpics"
    [] l = "initiatives" -> "ListInitiative"
    [] l = "boardID" -> "GetBoardID"
    [] l = "sprintIssues" -> "ListSprintIssues"
    [] l = "sprints" -> "ListSprints"

\* The process p is inside g.Wait() of Data.load.
Refreshing(p) == proc[p].pc = "dm_wait"

Crash(p, cause) ==
  /\ SetProc(p, [proc[p] EXCEPT !.pc = "panic", !.err = cause])
  /\ UNCHANGED <<loaders, grp>>

\* A loader that fetches one category with one remote call and stores it:
\* stored is the Data after the stores of the loader.  The call is
\* search(ctx, jql) (jira.go:343-365): once ctx is cancelled the request
\* fails, and search either returns the error or, when the client hands
\* back no response, parseResponseError(resp) (jira.go:367-373) panics
\* on resp.Body.
SimpleLoader(p, l, call, stored, panics) ==
  /\ Refreshing(p)
  /\ loaders[l].st = "run"
  /\ \E ok \in BOOLEAN :
       IF ok
         THEN IF grp.cancelled
                THEN Crash(p, NilRespPanic)
                ELSE IF panics
                THEN Crash(p, NilMapPanic)
                ELSE /\ SetProc(p, [proc[p] EXCEPT !.data = stored,
                                      !.calls = @ \cup {call}])
                     /\ loaders' = [loaders EXCEPT
                                      ![l] = [st |-> "ok", got |-> Rev]]
                     /\ UNCHANGED grp
         ELSE /\ SetProc(p, [proc[p] EXCEPT !.calls = @ \cup {call}])
              /\ loaders' = [loaders EXCEPT ![l].st = "err"]
              /\ grp' = GroupError(grp, LoaderError(l))
  /\ UNCHANGED <<clock, path, ino, written, stl, others>>

LoadIssues(p) ==
  SimpleLoader(p, "issues", "ListIssues",
               loadIssues(proc[p].data, RemoteIssues(Rev)),
               NilMapWrite(proc[p].data.IssueByKey, RemoteIssues(Rev)))

LoadEpics(p) ==
  SimpleLoader(p, "epics", "ListEpics",
               loadEpics(proc[p].data, RemoteEpics(Rev)), FALSE)

LoadInitiatives(p) ==
  SimpleLoader(p, "initiatives", "ListInitiatives",
               loadInitiatives(proc[p].data, RemoteInitiatives(Rev)), FALSE)

LoadSprintIssues(p) ==
  SimpleLoader(p, "sprintIssues", "ListSprintIssues",
               loadSprintIssues(proc[p].data, RemoteSprintIssues(Rev)), FALSE)

\* loadBoardID (data.go:195-202) with GetBoardID (jira.go:150-176)
LoadBoardID(p) ==
  /\ Refreshing(p)
  /\ loaders["boardID"].st = "run"
  /\ \E a \in BoardAnswers :
       CASE a = "board" ->
              /\ SetProc(p, [proc[p] EXCEPT !.data = loadBoardID(@, BoardA),
                               !.calls = @ \cup {"GetBoardID"}])
              /\ loaders' = [loaders EXCEPT
                               !["boardID"] = [st |-> "ok", got |-> Rev]]
              /\ UNCHANGED grp
         [] a = "error" ->
              /\ SetProc(p, [proc[p] EXCEPT !.calls = @ \cup {"GetBoardID"}])
              /\ loaders' = [loaders EXCEPT !["boardID"].st = "err"]
              /\ grp' = GroupError(grp, LoaderError("boardID"))
         [] a = "empty" -> Crash(p, IndexPanic)
  /\ UNCHANGED <<clock, path, ino, written, stl, others>>

\* What loadSprints returns when the board lookup it makes itself fails
\* (data.go:214-218): nil.
SprintsBoardFailed == "ok"

\* loadSprints (data.go:213-218): if d.BoardID == 0, look the board up
LoadSprintsBoard(p) ==
  /\ Refreshing(p)
  /\ loaders["sprints"].st = "run"
  /\ IF proc[p].data.BoardID = 0
       THEN \E a \in BoardAnswers :
         CASE a = "board" ->
                /\ SetProc(p, [proc[p] EXCEPT !.data = loadBoardID(@, BoardA),
                                 !.calls = @ \cup {"GetBoardID"}])
                /\ loaders' = [loaders EXCEPT !["sprints"].st = "list"]
                /\ UNCHANGED grp
           [] a = "error" ->
                /\ SetProc(p, [proc[p] EXCEPT !.calls = @ \cup {"GetBoardID"}])
                /\ loaders' = [loaders EXCEPT
                                 !["sprints"].st = SprintsBoardFailed]
                /\ grp' = IF SprintsBoardFailed = "err"
                            THEN GroupError(grp, LoaderError("boardID"))
                            ELSE grp
           [] a = "empty" -> Crash(p, IndexPanic)
       ELSE /\ loaders' = [loaders EXCEPT !["sprints"].st = "list"]
            /\ UNCHANGED <<proc, grp>>
  /\ UNCHANGED <<clock, path, ino, written, stl, others>>

\* loadSprints (data.go:219-227): ListSprints(d.BoardID) and the stores
LoadSprintsList(p) ==
  /\ Refreshing(p)
  /\ loaders["sprints"].st = "list"
  /\ \E ok \in BOOLEAN :
       IF ok
         THEN IF NilMapWrite(proc[p].data.SprintsByName,
                             RemoteSprints(Rev))
                THEN Crash(p, NilMapPanic)
                ELSE /\ SetProc(p, [proc[p] EXCEPT
                            !.data = loadSprints(@, RemoteSprints(Rev)),
                            !.calls = @ \cup {"ListSprints"}])
                     /\ loaders' = [loaders EXCEPT
                            !["sprints"] = [st |-> "ok", got |-> Rev]]
                     /\ UNCHANGED grp
         ELSE /\ SetProc(p, [proc[p] EXCEPT !.calls = @ \cup {"ListSprints"}])
              /\ loaders' = [loaders EXCEPT !["sprints"].st = "err"]
              /\ grp' = GroupError(grp, LoaderError("sprints"))
  /\ UNCHANGED <<clock, path, ino, written, stl, others>>

(***************************************************************************)
(* Data.load (data.go:120-154) as Daemon.loop calls it (daemon:44-50),     *)
(* and Daemon.Run (daemon:35-42)                                           *)
(***************************************************************************)
Min(a, b) == IF a < b THEN a ELSE b

\* load, were it to refresh the timestamp before looking at err
LoadStampAlways(d, err, now) == [d EXCEPT !.Timestamp = now]
\* load after g.Wait() returned err: the timestamp is refreshed on success
LoadStamp(d, err, now) ==
  IF err # "" THEN d ELSE [d EXCEPT !.Timestamp = now]

\* loop after load returned err: return err, or go on to d.writeFile()
LoopAfterLoad(err) == IF err # "" THEN "dm_sleep" ELSE "wf_open"

\* Where the process goes when load returns err: into loop for the daemon;
\* LoadDataBlocking (data.go:112-118) returns data and err to its caller
AfterLoad(op, err) == IF op = "daemon" THEN LoopAfterLoad(err) ELSE "done"

\* d.initJira() and the launch of the six loaders
DmLoad(p) ==
  /\ proc[p].pc = "dm_loop"
  /\ \E ok \in BOOLEAN :
       IF ok
         THEN /\ SetProc(p, [proc[p] EXCEPT !.pc = "dm_wait", !.err = "",
                     !.wrote = FALSE, !.data = [@ EXCEPT !.jira = TRUE],
                     !.calls = {"GetSelf"}])
              /\ loaders' = [l \in LoaderNames |-> [st |-> "run", got |-> 0]]
              /\ grp' = [err |-> "", ret |-> "pending",
                         tsBefore |-> proc[p].data.Timestamp, retAt |-> 0,
                         cancelled |-> grp.cancelled]
         ELSE /\ SetProc(p, [proc[p] EXCEPT
                     !.pc = AfterLoad(proc[p].op, "NewJira"),
                     !.err = "NewJira", !.wrote = FALSE,
                     !.calls = {"GetSelf"}])
              /\ loaders' = IdleLoaders
              /\ grp' = [grp EXCEPT !.err = "", !.ret = "NewJira",
                           !.tsBefore = proc[p].data.Timestamp,
                           !.retAt = clock]
  /\ UNCHANGED <<clock, path, ino, written, stl, others>>

\* g.Wait() returns when all loaders have returned
DmWait(p) ==
  /\ proc[p].pc = "dm_wait"
  /\ \A l \in LoaderNames : loaders[l].st \in {"ok", "err"}
  /\ SetProc(p, [proc[p] EXCEPT !.pc = AfterLoad(proc[p].op, grp.err),
                   !.err = grp.err,
                   !.data = LoadStamp(@, grp.err, clock)])
  /\ grp' = [grp EXCEPT !.ret = IF grp.err = "" THEN "nil" ELSE grp.err,
                         !.retAt = clock]
  /\ UNCHANGED <<clock, path, ino, written, loaders, stl, others>>

\* time.Sleep(refreshRate)
DmSleep(p) ==
  /\ proc[p].pc = "dm_sleep"
  /\ clock' = Min(clock + refreshRate, MaxClock)
  /\ SetProc(p, [proc[p] EXCEPT !.pc = "dm_loop"])
  /\ UNCHANGED <<path, ino, written, loaders, grp, stl, others>>

\* kong daemon (cmd/kong.go:32-42): NewDaemon calls LoadData
StartDaemon(p) ==
  /\ proc[p].pc = "idle"
  /\ SetProc(p, LdStat([IdleProc EXCEPT !.op = "daemon"]))
  /\ UNCHANGED <<clock, path, ino, written, loaders, grp, stl, others>>

DaemonProcs == {1}

InitDaemon == InitStore

\* the loaders of the errgroup
LoaderStep(p) ==
  \/ LoadIssues(p) \/ LoadEpics(p) \/ LoadInitiatives(p)
  \/ LoadBoardID(p) \/ LoadSprintIssues(p)
  \/ LoadSprintsBoard(p) \/ LoadSprintsList(p)

NextDaemon ==
  \E p \in DaemonProcs :
    \/ StartDaemon(p) \/ StoreStep(p)
    \/ DmLoad(p) \/ DmWait(p) \/ DmSleep(p)
    \/ LoaderStep(p)

SpecDaemon == InitDaemon /\ [][NextDaemon]_vars

(***************************************************************************)
(* The daemon whose context is cancelled during a refresh: ctx is handed   *)
(* to the four loaders that search (data.go:138-143); GetBoardID and       *)
(* ListSprints take no ctx (data.go:196, 219), the derived context of the  *)
(* errgroup is dropped (data.go:138), and load does not look at ctx.       *)
(***************************************************************************)
CancelRefresh(p) ==
  /\ Refreshing(p)
  /\ ~grp.cancelled
  /\ grp' = [grp EXCEPT !.cancelled = TRUE]
  /\ UNCHANGED <<clock, path, ino, proc, written, loaders, stl, others>>

InitCancel == InitStore

NextCancel ==
  \E p \in DaemonProcs :
    \/ StartDaemon(p) \/ StoreStep(p)
    \/ DmLoad(p) \/ DmWait(p) \/ DmSleep(p)
    \/ LoaderStep(p)
    \/ CancelRefresh(p)

SpecCancel == InitCancel /\ [][NextCancel]_vars

\* Data.load has returned from a run whose context is cancelled
CancelledRun(p) ==
  /\ proc[p].op = "daemon"
  /\ grp.cancelled
  /\ grp.ret \notin {"none", "pending"}

\* C18: a refresh run whose context is cancelled returns an error, keeps
\* no value that one of its loaders fetched, leaves the timestamp as it
\* was, and is not followed by a write of the snapshot file.
C18_CancelledDiscarded ==
  \A p \in Procs :
    CancelledRun(p)
      => /\ grp.ret # "nil"
         /\ proc[p].data.Timestamp = grp.tsBefore
         /\ ~proc[p].wrote
         /\ \A l \in LoaderNames : loaders[l].got = 0

(***************************************************************************)
(* LoadDataBlocking (data.go:112-118) as NewEditor calls it                *)
(* (editor.go:49-59): LoadData, then the full refresh                      *)
(***************************************************************************)
StartBlocking(p) ==
  /\ proc[p].pc = "idle"
  /\ SetProc(p, LdStat([IdleProc EXCEPT !.op = "blocking"]))
  /\ UNCHANGED <<clock, path, ino, written, loaders, grp, stl, others>>

BlockingProcs == {1}

InitBlocking == InitStore

NextBlocking ==
  \/ Tick
  \/ \E p \in BlockingProcs :
       \/ StartBlocking(p)
       \/ LdOpen(p) \/ LdFlock(p) \/ LdRead(p) \/ LdRemove(p)
       \/ LdInitJira(p) \/ LdUnlock(p)
       \/ DmLoad(p) \/ DmWait(p)
       \/ LoaderStep(p)

SpecBlocking == InitBlocking /\ [][NextBlocking]_vars

\* LoadDataBlocking of process p has returned nil
Refreshed(p) ==
  /\ proc[p].op = "blocking" /\ proc[p].pc = "done"
  /\ grp.ret = "nil" /\ proc[p].err = ""

\* C17: when LoadDataBlocking has returned nil, the snapshot file holds
\* the refreshed Snapshot.
C17_RefreshPersisted ==
  \A p \in Procs :
    Refreshed(p)
      => /\ path # 0
         /\ GobDecode(ino[path].content) = "ok"
         /\ ino[path].content[2].v = GobValue(proc[p].data)

(***************************************************************************)
(* The daemon and the full refresh                                         *)
(***************************************************************************)
IsDaemon(p) == proc[p].op = "daemon"

\* Data.load has returned in the current cycle
LoadReturned == grp.ret \notin {"none", "pending"}

AllLoaded == \A l \in LoaderNames : loaders[l].st = "ok"

\* the loaders have all returned, l with an error and the others with nil
OnlyFailed(l) ==
  /\ loaders[l].st = "err"
  /\ \A k \in LoaderNames \ {l} : loaders[k].st = "ok"

\* the field of loader l holds what was fetched at revision v
Holds(d, l, v) ==
  CASE l = "issues" -> d.Issues = RemoteIssues(v)
    [] l = "epics" -> d.Epics = RemoteEpics(v)
    [] l = "initiatives" -> d.Initiatives = RemoteInitiatives(v)
    [] l = "boardID" -> d.BoardID = BoardA
    [] l = "sprintIssues" -> d.SprintIssues = RemoteSprintIssues(v)
    [] l = "sprints" -> d.Sprints = RemoteSprints(v)

\* C6: after every refresh cycle, failed or not, the daemon has called
\* writeFile before it is idle again.
C6_WriteAfterEveryRefresh ==
  \A p \in Procs : (IsDaemon(p) /\ proc[p].pc = "dm_sleep") => proc[p].wrote

\* C7: no answer of the remote (such as a board lookup that lists no board)
\* ends the daemon process.
C7_DaemonNeverDies ==
  \A p \in Procs :
    IsDaemon(p) => ~(proc[p].pc = "panic" /\ proc[p].err = IndexPanic)

\* C8: a full refresh sets the timestamp exactly when all six loaders
\* returned without error, and leaves it as it was otherwise.
C8_StampIffAllLoaded ==
  \A p \in Procs :
    (IsDaemon(p) /\ LoadReturned)
      => /\ (grp.ret = "nil") <=> AllLoaded
         /\ AllLoaded => proc[p].data.Timestamp = grp.retAt
         /\ ~AllLoaded => proc[p].data.Timestamp = grp.tsBefore
         /\ proc[p].data.Timestamp # grp.tsBefore => AllLoaded

C8_Witness ==
  \E p \in Procs :
    /\ IsDaemon(p) /\ LoadReturned /\ AllLoaded
    /\ proc[p].data.Timestamp = clock
    /\ proc[p].data.Timestamp # grp.tsBefore

\* C9: when one loader fails and the others succeed, the refresh has waited
\* for all of them, returns the error of the failed one, and the Snapshot
\* holds the value fetched in this refresh for every loader that succeeded.
C9_PartialRefresh ==
  \A p \in Procs : \A l \in LoaderNames :
    (IsDaemon(p) /\ LoadReturned /\ OnlyFailed(l))
      => /\ grp.ret = LoaderError(l)
         /\ \A k \in LoaderNames \ {l} :
              loaders[k].got = Rev /\ Holds(proc[p].data, k, Rev)

\* the loader is a goroutine of the errgroup that has not returned
LoaderRuns(l) == loaders[l].st \in {"run", "list"}

\* the fields of the Snapshot the rest of loader l reads and writes
\* (data.go:165-228): loadSprints tests d.BoardID, stores it through
\* loadBoardID when it is 0, and hands it to ListSprints
LoaderReads(l, d) ==
  CASE l = "sprints" -> {"BoardID"}
    [] OTHER -> {}

LoaderWrites(l, d) ==
  CASE l = "issues" -> {"IssueByKey", "Issues"}
    [] l = "epics" -> {"Epics"}
    [] l = "initiatives" -> {"Initiatives"}
    [] l = "boardID" -> {"BoardID"}
    [] l = "sprintIssues" -> {"SprintIssues"}
    [] l = "sprints" ->
         IF loaders[l].st = "run" /\ d.BoardID = 0
           THEN {"BoardID", "SprintsByName", "Sprints"}
           ELSE {"SprintsByName", "Sprints"}

\* C27: no two loaders that run at the same time access the same field of
\* the Snapshot with one of them writing it.
C27_DisjointFields ==
  \A p \in Procs : \A k, l \in LoaderNames :
    (IsDaemon(p) /\ Refreshing(p) /\ k # l
       /\ LoaderRuns(k) /\ LoaderRuns(l))
      => LoaderWrites(k, proc[p].data)
           \cap (LoaderReads(l, proc[p].data)
                   \cup LoaderWrites(l, proc[p].data)) = {}

\* C28: when a refresh has succeeded, in whichever order the boardID
\* loader and the sprints loader ran and whether BoardID was 0 or set, the
\* Snapshot holds the board of the remote and the sprints fetched for it
\* in this refresh.
C28_SprintsForBoard ==
  \A p \in Procs :
    (IsDaemon(p) /\ grp.ret = "nil")
      => /\ proc[p].data.BoardID = BoardA
         /\ loaders["sprints"].got = Rev
         /\ proc[p].data.Sprints = RemoteSprints(Rev)

\* C36: when a refresh has returned nil and set the timestamp, each of the
\* six categories was fetched from the remote in this refresh.
C36_StampedMeansFetched ==
  \A p \in Procs :
    (IsDaemon(p) /\ grp.ret = "nil" /\ proc[p].data.Timestamp = grp.retAt)
      => \A l \in LoaderNames : loaders[l].got = Rev

\* the keys of an index and of a sequence of issues, the names of an index
\* and of a sequence of sprints
IndexKeys(m) == {x.Key : x \in m.kv}
IssueKeys(issues) == {issues[i].Key : i \in DOMAIN issues}
IndexNames(m) == {x.Name : x \in m.kv}
SprintNames(sprints) == {sprints[i].Name : i \in DOMAIN sprints}

\* C26: once the issues loader of a refresh has stored its result, the keys
\* of IssueByKey are the keys of Issues; once the sprints loader has, the
\* names of SprintsByName are the names of Sprints.
C26_IndexRebuilt ==
  \A p \in Procs :
    IsDaemon(p)
      => /\ loaders["issues"].got # 0
              => IndexKeys(proc[p].data.IssueByKey)
                   = IssueKeys(proc[p].data.Issues)
         /\ loaders["sprints"].got # 0
              => IndexNames(proc[p].data.SprintsByName)
                   = SprintNames(proc[p].data.Sprints)

(***************************************************************************)
(* The accessors (data.go:230-288) as a foreground command calls them      *)
(* (cmd/kong.go:61-69): data, err := kong.LoadData(); data.GetX(ctx)       *)
(***************************************************************************)
Getters ==
  {"GetIssues", "GetEpics", "GetInitiatives", "GetSprintIssues", "GetSprints"}

NilDeref == "nil pointer dereference"

\* return d.Issues, nil (and so on): the field accessor g returns
Field(d, g) ==
  CASE g = "GetIssues" -> d.Issues
    [] g = "GetEpics" -> d.Epics
    [] g = "GetInitiatives" -> d.Initiatives
    [] g = "GetSprintIssues" -> d.SprintIssues
    [] g = "GetSprints" -> d.Sprints

\* the remote call of the loader accessor g runs
GetterCall(g) ==
  CASE g = "GetIssues" -> "ListIssues"
    [] g = "GetEpics" -> "ListEpics"
    [] g = "GetInitiatives" -> "ListInitiatives"
    [] g = "GetSprintIssues" -> "ListSprintIssues"
    [] g = "GetSprints" -> "ListSprints"

\* the loader accessor g runs, applied to its receiver
GetterLoad(d, g) ==
  CASE g = "GetIssues" -> loadIssues(d, RemoteIssues(Rev))
    [] g = "GetEpics" -> loadEpics(d, RemoteEpics(Rev))
    [] g = "GetInitiatives" -> loadInitiatives(d, RemoteInitiatives(Rev))
    [] g = "GetSprintIssues" -> loadSprintIssues(d, RemoteSprintIssues(Rev))
    [] g = "GetSprints" -> loadSprints(d, RemoteSprints(Rev))

\* the loader of accessor g assigns to an entry of a nil map
GetterNilMap(d, g) ==
  \/ g = "GetIssues" /\ NilMapWrite(d.IssueByKey, RemoteIssues(Rev))
  \/ g = "GetSprints" /\ NilMapWrite(d.SprintsByName, RemoteSprints(Rev))

\* The accessors have value receivers: d is a copy of the caller's Data.
\* The copy shares the two maps with the caller, so what a loader stores
\* into a map of d is stored into the caller's map.
SharedMaps(data, d) ==
  [data EXCEPT !.IssueByKey = d.IssueByKey, !.SprintsByName = d.SprintsByName]

\* a process runs a foreground command that calls LoadData and accessor g
StartCommand(p) ==
  /\ proc[p].pc = "idle"
  /\ \E g \in Getters :
       SetProc(p, LdStat([IdleProc EXCEPT !.op = "command", !.get = g]))
  /\ UNCHANGED <<clock, path, ino, written, loaders, grp, stl, others>>

\* if !d.Stale() { return d.X, nil }
GxCheck(p) ==
  /\ proc[p].pc = "gx_check"
  /\ LET r == [proc[p] EXCEPT !.d = proc[p].data, !.pre = proc[p].data,
                              !.fresh = ~Stale(proc[p].data, clock)]
     IN  IF r.fresh
           THEN SetProc(p, [r EXCEPT !.pc = "done",
                                     !.out = Field(r.d, r.get)])
           ELSE SetProc(p, [r EXCEPT !.pc =
                  IF r.get = "GetSprints" /\ r.d.BoardID = 0
                    THEN "gx_board" ELSE "gx_load"])
  /\ UNCHANGED <<clock, path, ino, written, loaders, grp, stl, others>>

\* loadSprints (data.go:214-218) in GetSprints: d.BoardID == 0, so the
\* board is looked up; when that fails loadSprints returns nil and
\* GetSprints returns d.Sprints, nil
GxBoard(p) ==
  /\ proc[p].pc = "gx_board"
  /\ IF ~proc[p].d.jira
       THEN SetProc(p, [proc[p] EXCEPT !.pc = "panic", !.err = NilDeref])
       ELSE \E a \in BoardAnswers :
         LET r == [proc[p] EXCEPT !.calls = @ \cup {"GetBoardID"}] IN
         CASE a = "board" ->
                SetProc(p, [r EXCEPT !.pc = "gx_load",
                                     !.d = loadBoardID(@, BoardA)])
           [] a = "error" ->
                SetProc(p, [r EXCEPT !.pc = "done",
                                     !.out = Field(r.d, r.get)])
           [] a = "empty" ->
                SetProc(p, [proc[p] EXCEPT !.pc = "panic", !.err = IndexPanic])
  /\ UNCHANGED <<clock, path, ino, written, loaders, grp, stl, others>>

\* if err := d.loadX(ctx); err != nil { return nil, err }; return d.X, nil
GxLoad(p) ==
  /\ proc[p].pc = "gx_load"
  /\ IF ~proc[p].d.jira
       THEN SetProc(p, [proc[p] EXCEPT !.pc = "panic", !.err = NilDeref])
       ELSE \E ok \in BOOLEAN :
         LET g == proc[p].get
             r == [proc[p] EXCEPT !.calls = @ \cup {GetterCall(g)}]
             d == GetterLoad(r.d, g)
         IN  IF ~ok
               THEN SetProc(p, [r EXCEPT !.pc = "done", !.out = <<>>,
                                         !.err = GetterCall(g)])
             ELSE IF GetterNilMap(r.d, g)
               THEN SetProc(p, [r EXCEPT !.pc = "panic", !.err = NilMapPanic])
             ELSE SetProc(p, [r EXCEPT !.pc = "done", !.d = d,
                                       !.data = SharedMaps(@, d),
                                       !.out = Field(d, g)])
  /\ UNCHANGED <<clock, path, ino, written, loaders, grp, stl, others>>

\* the processes that run foreground commands
CommandProcs == {1, 2}

InitCommand == InitStore

NextCommand ==
  \/ Tick
  \/ \E p \in CommandProcs :
       \/ StartCommand(p)
       \/ LdOpen(p) \/ LdFlock(p) \/ LdRead(p) \/ LdRemove(p)
       \/ LdInitJira(p) \/ LdUnlock(p)
       \/ GxCheck(p) \/ GxBoard(p) \/ GxLoad(p)

SpecCommand == InitCommand /\ [][NextCommand]_vars

(***************************************************************************)
(* The foreground command                                                  *)
(***************************************************************************)
\* the value stored in the snapshot file
OnDisk == ino[path].content[2].v

\* the snapshot on disk is complete and not older than the expiry
FreshOnDisk ==
  /\ path # 0
  /\ GobDecode(ino[path].content) = "ok"
  /\ clock - OnDisk.Timestamp <= expiry

\* the field of a stored value that belongs to accessor g
Stored(v, g) ==
  CASE g = "GetIssues" -> v.Issues
    [] g = "GetEpics" -> v.Epics
    [] g = "GetInitiatives" -> v.Initiatives
    [] g = "GetSprintIssues" -> v.SprintIssues
    [] g = "GetSprints" -> v.Sprints

\* C4: a command that has read a snapshot which is not stale has made no
\* remote call and its accessor returns the field stored in the file.
C4_FreshNoRemote ==
  \A p \in Procs :
    (proc[p].op = "command" /\ proc[p].pc \in {"done", "panic"}
       /\ proc[p].dec = "ok" /\ FreshOnDisk)
      => /\ proc[p].pc = "done" /\ proc[p].err = ""
         /\ proc[p].calls = {}
         /\ proc[p].out = Stored(OnDisk, proc[p].get)

C4_Witness ==
  \E p \in Procs :
    /\ proc[p].op = "command" /\ proc[p].pc = "done" /\ proc[p].dec = "ok"
    /\ FreshOnDisk /\ proc[p].fresh
    /\ proc[p].get = "GetIssues" /\ proc[p].out = <<Issue("KONG-1", 1)>>

\* C5: an accessor that found the snapshot stale and returned without error
\* has made the remote call of its own category only, returns the value it
\* fetched, and has left every field of the caller's Snapshot as it was.
C5_StaleFetchFrame ==
  \A p \in Procs :
    (proc[p].op = "command" /\ proc[p].pc = "done" /\ proc[p].err = ""
       /\ proc[p].calls # {} /\ ~proc[p].fresh /\ proc[p].pre.jira)
      => /\ proc[p].calls \ {"GetSelf"} = {GetterCall(proc[p].get)}
         /\ proc[p].out = Field(GetterLoad(proc[p].pre, proc[p].get),
                                proc[p].get)
         /\ GobValue(proc[p].data) = GobValue(proc[p].pre)

\* the command of process p has ended: its accessor has returned or the
\* process has panicked
Ended(p) == proc[p].op = "command" /\ proc[p].pc \in {"done", "panic"}

\* what accessor g fetches from the remote
Fetched(g) == Field(GetterLoad(NewData, g), g)

\* C13: when LoadData has returned the empty Snapshot after it deleted the
\* file as corrupt, the accessor called on it treats it as stale and
\* returns either the category fetched from the remote or the error of
\* the fetch.
C13_EmptySnapshotUsable ==
  \A p \in Procs :
    (Ended(p) /\ proc[p].removed)
      => /\ proc[p].pc = "done" /\ ~proc[p].fresh
         /\ proc[p].err = "" => proc[p].out = Fetched(proc[p].get)
         /\ proc[p].err # "" => proc[p].err = GetterCall(proc[p].get)

\* the accessor of process p found the Snapshot stale and returned a
\* nil error
StaleSuccess(p) ==
  /\ proc[p].op = "command" /\ proc[p].pc = "done"
  /\ proc[p].get # "" /\ ~proc[p].fresh
  /\ proc[p].err = ""

\* C20: an accessor that found the Snapshot stale returns a nil error only
\* with the category it fetched from the remote; when a remote call it
\* needs fails, the board lookup of GetSprints included, it returns an
\* error.
C20_RemoteErrorReturned ==
  \A p \in Procs :
    StaleSuccess(p)
      => /\ GetterCall(proc[p].get) \in proc[p].calls
         /\ proc[p].out = Fetched(proc[p].get)

\* GetBoardID in the board lookup of GetSprints has indexed the empty
\* list of boards
NoBoardPanic(p) == proc[p].pc = "panic" /\ proc[p].err = IndexPanic

\* C24: a board lookup that the remote answers with zero boards makes
\* GetBoardID return an error; it does not abort the process.
C24_NoBoardsIsError ==
  \A p \in Procs : ~NoBoardPanic(p)

(***************************************************************************)
(* Stale on its own: a timestamp in whole seconds against a clock that     *)
(* counts Resolution units per second                                      *)
(***************************************************************************)
StaleInputs ==
  [ts : 0..MaxStamp, now : 0..((MaxStamp + expiry + 2) * Resolution)]

\* d.Stale() for d.Timestamp = ts at the instant now
CallStale ==
  /\ \E in \in StaleInputs :
       stl' = [ts |-> in.ts, now |-> in.now, done |-> TRUE,
               out |-> StaleAt(in.ts, in.now, Resolution)]
  /\ UNCHANGED <<clock, path, ino, proc, written, loaders, grp, others>>

InitStale ==
  /\ clock = 0
  /\ path = 0
  /\ ino = [i \in Inodes |-> BlankInode]
  /\ proc = [p \in Procs |-> IdleProc]
  /\ written = {}
  /\ loaders = IdleLoaders /\ grp = IdleGroup /\ stl = IdleStale
  /\ IdleOthers

NextStale == CallStale

SpecStale == InitStale /\ [][NextStale]_vars

\* C3: Stale is true exactly when more than twice the refresh interval has
\* passed since the timestamp: false one second before the boundary and at
\* the boundary, true one second after it.
C3_StaleBoundary ==
  stl.done =>
    /\ stl.out <=> (stl.now - stl.ts * Resolution
                      > 2 * refreshRate * Resolution)
    /\ stl.now = (stl.ts + 2 * refreshRate - 1) * Resolution => ~stl.out
    /\ stl.now = (stl.ts + 2 * refreshRate) * Resolution => ~stl.out
    /\ stl.now = (stl.ts + 2 * refreshRate + 1) * Resolution => stl.out

C3_Witness ==
  /\ stl.done /\ stl.ts = 1
  /\ stl.now = (stl.ts + 2 * refreshRate) * Resolution + 1
  /\ stl.out

(***************************************************************************)
(* The command line (cmd/kong.go): the constructors each command calls     *)
(* before it does its work, and exit.  An error is the chain of its        *)
(* wrappers, the innermost error last; no error is the empty chain.        *)
(***************************************************************************)
ErrConfigMissing == <<"configuration missing">>
ConfigPrompt == <<"Configuration is missing. Run kong configure">>

\* fmt.Errorf(prefix + ": %w", err): a new error value around err
Wrapf(prefix, err) == <<prefix>> \o err

\* LoadConfig (config.go:63-73)
LoadConfig(cfg) == IF cfg THEN <<>> ELSE ErrConfigMissing

\* NewJira (jira.go:30-50)
NewJira(cfg, remote) ==
  IF LoadConfig(cfg) # <<>> THEN Wrapf("NewJira", LoadConfig(cfg))
  ELSE IF ~remote THEN Wrapf("GetSelf", <<"remote">>)
  ELSE <<>>

\* the error of LoadData (data.go:57-95) by the state of the snapshot file
CliLoadData(snap, cfg, remote) ==
  CASE snap = "missing" -> NewJira(cfg, remote)
    [] snap = "garbage" -> <<"gob.Decode">>
    [] OTHER -> <<>>

\* the constructors of each command, in the order it calls them:
\* NewDaemon is LoadData (daemon:22-30), NewEditor is NewJira and then
\* LoadData (editor.go:43-53)
Calls(cmd) ==
  CASE cmd = "daemon" -> <<"LoadData">>
    [] cmd = "issues" -> <<"LoadData">>
    [] cmd = "issues -p" -> <<"NewJira">>
    [] cmd = "issue edit" -> <<"NewJira", "LoadData">>
    [] cmd = "sprints new" -> <<"LoadData", "NewJira">>
    [] cmd = "branch" -> <<"LoadData">>
    [] cmd = "configure" -> <<"LoadConfig">>

Commands ==
  {"daemon", "issues", "issues -p", "issue edit", "sprints new", "branch",
   "configure"}

CliStart ==
  /\ cli.pc = "idle"
  /\ \E c \in Commands, cfg \in BOOLEAN, remote \in BOOLEAN,
        snap \in {"missing", "garbage", "stale", "fresh"} :
       cli' = [IdleCli EXCEPT !.pc = "call", !.cmd = c, !.cfg = cfg,
                              !.snap = snap, !.remote = remote, !.k = 1]
  /\ UNCHANGED <<store, srch, crt, od, ni, ed>>

\* the next constructor of the command: if err != nil { exit(err) };
\* configure goes on without a configuration (cmd/kong.go:318-321).
\* k is the position in Calls(cmd).
CliCall ==
  /\ cli.pc = "call"
  /\ LET call == Calls(cli.cmd)[cli.k]
         err == CASE call = "LoadConfig" -> LoadConfig(cli.cfg)
                  [] call = "NewJira" -> NewJira(cli.cfg, cli.remote)
                  [] call = "LoadData" ->
                       CliLoadData(cli.snap, cli.cfg, cli.remote)
         fails == IF call = "LoadConfig"
                    THEN err # <<>> /\ err # ErrConfigMissing
                    ELSE err # <<>>
     IN  IF fails
           THEN cli' = [cli EXCEPT !.pc = "exit", !.err = err]
           ELSE IF cli.k = Len(Calls(cli.cmd))
             THEN cli' = [cli EXCEPT !.pc = "run"]
             ELSE cli' = [cli EXCEPT !.k = @ + 1]
  /\ UNCHANGED <<store, srch, crt, od, ni, ed>>

\* exit (cmd/kong.go:401-407): err == kong.ErrConfigMissing
ExitPrints(err) == IF err = ErrConfigMissing THEN ConfigPrompt ELSE err

CliExit ==
  /\ cli.pc = "exit"
  /\ cli' = [cli EXCEPT !.pc = "exited", !.printed = ExitPrints(cli.err),
                        !.status = 1]
  /\ UNCHANGED <<store, srch, crt, od, ni, ed>>

NextCli == CliStart \/ CliCall \/ CliExit

SpecCli == InitStale /\ [][NextCli]_vars

\* the process has exited through exit with an error that stems from the
\* absent configuration file
ExitedConfigMissing ==
  /\ cli.pc = "exited" /\ ~cli.cfg
  /\ cli.err[Len(cli.err)] = ErrConfigMissing[1]

\* C21: when the configuration file is absent, exit prints the fixed
\* message for the error that reaches it, also when the error comes from
\* NewJira.
C21_ConfigMissingPrompt ==
  ExitedConfigMissing => cli.printed = ConfigPrompt

(***************************************************************************)
(* Jira.search (jira.go:343-365) against a remote that holds total         *)
(* matching issues and answers a page request with the issues from         *)
(* startAt on, at most maxResults of them, and with total                  *)
(***************************************************************************)
MaxTotal == 5
MaxPage == 3

RemoteKeys(total) == [i \in 1..total |-> i]

\* the issues of the page the remote returns, of the issues it hands out
Page(visible, startAt, maxResults) ==
  SubSeq(RemoteKeys(visible), startAt + 1, Min(startAt + maxResults, visible))

\* the history of the requests is kept up to this length
MaxRequests == MaxTotal + 2
Record(history, x) ==
  IF Len(history) < MaxRequests THEN Append(history, x) ELSE history

\* what a page request can meet: an answer with the page, an answer with
\* an error status, or no answer at all (the client then hands back a nil
\* response)

SearchStart ==
  /\ srch.pc = "idle"
  /\ \E total \in 0..MaxTotal, maxResults \in 1..MaxPage :
       \E bad \in 0..total :
         srch' = [IdleSrch EXCEPT !.pc = "page", !.total = total,
                                  !.visible = total,
                                  !.maxResults = maxResults, !.bad = bad]
  /\ UNCHANGED <<store, cli, crt, od, ni, ed>>

\* if len(result) >= resp.Total { break }, one issue early
SearchCompleteEarly(n, total) == n + 1 >= total

\* if len(result) >= resp.Total { break }
SearchComplete(n, total) == n >= total

\* one turn of the loop: SearchWithContext with StartAt and MaxResults,
\* return on err, append, break or advance startAt by len(list)
SearchPage ==
  /\ srch.pc = "page"
  /\ \E a \in {"ok", "status", "noresp"} :
       LET r == [srch EXCEPT
                   !.reqs = Record(@, [startAt |-> srch.startAt,
                                       maxResults |-> srch.maxResults,
                                       have |-> Len(srch.result)]),
                   !.answers = Record(@, a)]
           list == Page(srch.visible, srch.startAt, srch.maxResults)
           result == srch.result \o list
       IN  CASE a = "ok" ->
                  srch' = [r EXCEPT
                    !.result = result,
                    !.pc = IF SearchComplete(Len(result), srch.total)
                             THEN "convert" ELSE "page",
                    !.startAt = IF SearchComplete(Len(result), srch.total)
                                  THEN @ ELSE @ + Len(list)]
             [] a = "status" ->
                  srch' = [r EXCEPT !.pc = "done", !.err = "search"]
             [] a = "noresp" ->
                  srch' = [r EXCEPT !.pc = "panic", !.err = NilRespPanic]
  /\ UNCHANGED <<store, cli, crt, od, ni, ed>>

\* return NewIssues(result, j.config.CustomFields): NewIssues returns nil
\* and an error when NewIssue rejects an issue (model.go:297-300)
SearchConvert ==
  /\ srch.pc = "convert"
  /\ srch' = IF \E i \in DOMAIN srch.result : srch.result[i] = srch.bad
               THEN [srch EXCEPT !.pc = "done", !.err = "NewIssues"]
               ELSE [srch EXCEPT !.pc = "done", !.out = srch.result]
  /\ UNCHANGED <<store, cli, crt, od, ni, ed>>

NextSearch == SearchStart \/ SearchPage \/ SearchConvert

SpecSearch == InitStale /\ [][NextSearch]_vars

CeilDiv(a, b) == (a + b - 1) \div b

Max(a, b) == IF a > b THEN a ELSE b

\* search has returned, every page request was answered with its page,
\* and NewIssue accepts every issue
SearchedAll ==
  /\ srch.pc = "done" /\ srch.bad = 0
  /\ \A i \in DOMAIN srch.answers : srch.answers[i] = "ok"

\* C22: against a remote with total issues and with page size maxResults,
\* search makes max(1, ceil(total / maxResults)) page requests, each with
\* that page size and with startAt the number of issues it already has,
\* and returns all the issues in the order of the remote.
C22_Pagination ==
  SearchedAll
    => /\ srch.err = ""
       /\ Len(srch.reqs) = Max(1, CeilDiv(srch.total, srch.maxResults))
       /\ \A i \in DOMAIN srch.reqs :
            /\ srch.reqs[i].maxResults = srch.maxResults
            /\ srch.reqs[i].startAt = srch.reqs[i].have
       /\ srch.out = RemoteKeys(srch.total)

C22_Witness ==
  /\ SearchedAll /\ srch.total = 5 /\ srch.maxResults = 2
  /\ Len(srch.reqs) = 3 /\ srch.reqs[3].startAt = 4
  /\ srch.out = <<1, 2, 3, 4, 5>>

\* search has ended after a page request that failed
SearchFailed ==
  /\ srch.pc \in {"done", "panic"}
  /\ \E i \in DOMAIN srch.answers : srch.answers[i] # "ok"

\* C23: when a page request fails, search returns an error and no issues,
\* and the failed request is the last one it makes.
C23_PageFailureAborts ==
  SearchFailed
    => /\ srch.pc = "done"
       /\ srch.err # "" /\ srch.out = <<>>
       /\ \A i \in DOMAIN srch.answers :
            srch.answers[i] # "ok" => i = Len(srch.reqs)

(***************************************************************************)
(* Jira.CreateIssues (jira.go:192-225): one goroutine per issue in an      *)
(* errgroup whose derived context is handed to the requests; the first     *)
(* error cancels that context.  A request is sent, the remote creates the  *)
(* issue or rejects it, and the answer reaches the goroutine unless the    *)
(* context is done first.                                                  *)
(***************************************************************************)
MaxBatch == 3

CreateStart ==
  /\ crt.pc = "idle"
  /\ \E n \in 1..MaxBatch :
       crt' = [IdleCrt EXCEPT !.pc = "wait", !.tasks = [i \in 1..n |-> "run"]]
  /\ UNCHANGED <<store, cli, srch, od, ni, ed>>

\* the request of a goroutine fails without a response because the context
\* is done: parseResponseError(resp) (jira.go:205, 367-368) reads the Body
\* of a nil response
CreateAborted == [crt EXCEPT !.pc = "panic", !.err = NilRespPanic]

\* CreateWithContext(ctx, issue): the request reaches the remote, which
\* creates the issue or rejects it
CreateSend(i) ==
  /\ crt.pc = "wait" /\ i \in DOMAIN crt.tasks /\ crt.tasks[i] = "run"
  /\ IF crt.cancelled
       THEN crt' = CreateAborted
       ELSE \E accept \in BOOLEAN :
              crt' = IF accept
                       THEN [crt EXCEPT !.tasks[i] = "accepted",
                                        !.created = @ \cup {i}]
                       ELSE [crt EXCEPT !.tasks[i] = "rejected"]
  /\ UNCHANGED <<store, cli, srch, od, ni, ed>>

\* the answer arrives: the "Created" line and lastIssueCreated, or the
\* error, which is the first of the group if none was there and cancels
\* the context (errgroup.Go)
CreateAnswer(i) ==
  /\ crt.pc = "wait" /\ i \in DOMAIN crt.tasks
  /\ \/ /\ crt.tasks[i] = "accepted"
        /\ crt' = [crt EXCEPT !.tasks[i] = "ok", !.confirmed = @ + 1,
                              !.last = i]
     \/ /\ crt.tasks[i] = "rejected"
        /\ crt' = [crt EXCEPT !.tasks[i] = "err",
                              !.err = IF @ = "" THEN "Create" ELSE @,
                              !.cancelled = TRUE]
  /\ UNCHANGED <<store, cli, srch, od, ni, ed>>

\* the context is done before the answer has arrived
CreateCancelled(i) ==
  /\ crt.pc = "wait" /\ i \in DOMAIN crt.tasks
  /\ crt.tasks[i] \in {"accepted", "rejected"}
  /\ crt.cancelled
  /\ crt' = CreateAborted
  /\ UNCHANGED <<store, cli, srch, od, ni, ed>>

\* g.Wait(), and on no error LoadData, data.LastIssueCreated and WriteFile
CreateWait ==
  /\ crt.pc = "wait"
  /\ \A i \in DOMAIN crt.tasks : crt.tasks[i] \in {"ok", "err"}
  /\ IF crt.err # ""
       THEN crt' = [crt EXCEPT !.pc = "done"]
       ELSE \E ok \in BOOLEAN :
              crt' = IF ok
                       THEN [crt EXCEPT !.pc = "done", !.persisted = crt.last]
                       ELSE [crt EXCEPT !.pc = "done", !.err = "LoadData"]
  /\ UNCHANGED <<store, cli, srch, od, ni, ed>>

NextCreate ==
  \/ CreateStart
  \/ CreateWait
  \/ \E i \in 1..MaxBatch :
       CreateSend(i) \/ CreateAnswer(i) \/ CreateCancelled(i)

SpecCreate == InitStale /\ [][NextCreate]_vars

\* CreateIssues has ended and the remote has rejected an issue of the batch
CreateRejected ==
  /\ crt.pc \in {"done", "panic"}
  /\ \E i \in DOMAIN crt.tasks : crt.tasks[i] \in {"rejected", "err"}

\* C25: when the remote has rejected an issue of the batch, CreateIssues
\* returns an error, the last created issue in the snapshot file is the
\* one from before the call, and as many "Created" lines were printed as
\* the remote has created issues.
C25_BatchFailure ==
  CreateRejected
    => /\ crt.pc = "done" /\ crt.err # ""
       /\ crt.persisted = 0
       /\ crt.confirmed = Cardinality(crt.created)

(***************************************************************************)
(* The daemon of daemon.go: loop starts four loader goroutines, stamps    *)
(* the timestamp and writes the file (daemon.go:44-61); the goroutines     *)
(* store what they fetched into d.data (daemon.go:89-132).  The value a    *)
(* goroutine fetches is named by the cycle that launched it.               *)
(***************************************************************************)
MaxCycles == 2

\* loadIssues, loadSprints, loadEpics, loadSprintIssues
OldLoaders == 1..4

\* Daemon.Run (daemon.go:34-41) enters its loop
OdRun ==
  /\ od.pc = "idle"
  /\ od' = [od EXCEPT !.pc = "loop", !.cycle = 1]
  /\ UNCHANGED <<store, cli, srch, crt, ni, ed>>

\* for _, f := range loaders { d.wg.Add(1); go f() }
OdLaunch ==
  /\ od.pc = "loop"
  /\ od' = [od EXCEPT !.pc = "stamp",
              !.running = @ \cup {[l |-> l, cycle |-> od.cycle] :
                                    l \in OldLoaders}]
  /\ UNCHANGED <<store, cli, srch, crt, ni, ed>>

\* d.data.Timestamp = time.Now().Unix() and, in writeFile, flock.Lock and
\* os.Create; when one of these fails writeFile returns the error
OdStamp ==
  /\ od.pc = "stamp"
  /\ \E ok \in BOOLEAN :
       od' = IF ok
               THEN [od EXCEPT !.pc = "encode", !.ts = od.cycle, !.k = 0,
                               !.file = <<>>]
               ELSE [od EXCEPT !.pc = "sleep", !.ts = od.cycle]
  /\ UNCHANGED <<store, cli, srch, crt, ni, ed>>

\* encoder.Encode(d.data) reads the categories one after the other
OdEncode ==
  /\ od.pc = "encode"
  /\ od.k < Len(od.data)
  /\ od' = [od EXCEPT !.k = @ + 1, !.file = Append(@, od.data[od.k + 1]),
                      !.pc = IF od.k + 1 = Len(od.data)
                               THEN "sleep" ELSE "encode"]
  /\ UNCHANGED <<store, cli, srch, crt, ni, ed>>

\* time.Sleep(refreshRate) and the next turn of the loop
OdSleep ==
  /\ od.pc = "sleep"
  /\ od.cycle < MaxCycles
  /\ od' = [od EXCEPT !.pc = "loop", !.cycle = @ + 1]
  /\ UNCHANGED <<store, cli, srch, crt, ni, ed>>

\* a loader goroutine returns: it stores what it fetched, or logs the error
OdLoader(l, c) ==
  /\ [l |-> l, cycle |-> c] \in od.running
  /\ \E ok \in BOOLEAN :
       od' = IF ok
               THEN [od EXCEPT !.running = @ \ {[l |-> l, cycle |-> c]},
                               !.data[l] = c,
                               !.raced = @ \/ od.pc = "encode"]
               ELSE [od EXCEPT !.running = @ \ {[l |-> l, cycle |-> c]}]
  /\ UNCHANGED <<store, cli, srch, crt, ni, ed>>

NextOldDaemon ==
  \/ OdRun \/ OdLaunch \/ OdStamp \/ OdEncode \/ OdSleep
  \/ \E l \in OldLoaders, c \in 1..MaxCycles : OdLoader(l, c)

SpecOldDaemon == InitStale /\ [][NextOldDaemon]_vars

\* C29: the timestamp is stamped and the file encoded only when no loader
\* goroutine is running, no goroutine stores a category while the file is
\* encoded, no goroutine of an earlier cycle runs beside those of a later
\* one, and the file written in a cycle holds the categories of the
\* Snapshot.
C29_WriteAfterLoaders ==
  /\ od.pc = "encode" => od.running = {}
  /\ ~od.raced
  /\ \A g \in od.running : g.cycle = od.cycle
  /\ (od.pc = "sleep" /\ od.file # <<>>) => od.file = od.data

(***************************************************************************)
(* NewIssues (model.go:290-340).  A status name is the sequence of its     *)
(* words and a word the sequence of its letters; a jira.Issue is reduced   *)
(* to its key, to whether validateJiraIssue accepts its fields, and to     *)
(* the targets of its transitions.                                         *)
(***************************************************************************)
MaxIssues == 2
MaxTransitions == 2

ToDo == << <<"T", "o">>, <<"D", "o">> >>
InProgress == << <<"I", "n">>, <<"P", "r", "o", "g", "r", "e", "s", "s">> >>
\* strings.Split("", " ") is one empty word
StatusNames == {ToDo, InProgress, << <<>> >>}

\* unicode.ToLower
ToLower(c) ==
  CASE c = "T" -> "t" [] c = "D" -> "d" [] c = "I" -> "i" [] c = "P" -> "p"
    [] OTHER -> c

\* statusAcronym (model.go:448-454): the lower-case first letter of every
\* word; word[0] panics on an empty word
statusAcronym(name) == [w \in DOMAIN name |-> ToLower(name[w][1])]
AcronymPanics(name) == \E w \in DOMAIN name : name[w] = <<>>

\* the transitions of the i-th issue of a batch: their IDs tell them apart
JiraTransitions(i, names) ==
  [j \in DOMAIN names |-> [ID |-> <<i, j>>, To |-> names[j]]]

\* a jira.Issue: whether Key, Fields, Fields.Summary are there, what
\* Fields.Priority and Fields.Status are (nil, with an empty Name, with a
\* Name), and the status names its transitions lead to
JiraIssues ==
  {[key |-> v, fields |-> TRUE, summary |-> TRUE, priority |-> "named",
    status |-> "named", names |-> ns] :
     v \in BOOLEAN,
     ns \in UNION {[1..k -> StatusNames] : k \in 0..MaxTransitions}}

Batches == UNION {[1..k -> JiraIssues] : k \in 1..MaxIssues}

\* validateJiraIssue (model.go:356-376): the first check that fails, in
\* the order of the code; <<>> is nil
validateJiraIssue(issue) ==
  IF ~issue.key THEN <<"key cannot be empty">>
  ELSE IF ~issue.fields THEN <<"fields cannot be nil">>
  ELSE IF ~issue.summary THEN <<"summary cannot be empty">>
  ELSE IF issue.priority = "nil" THEN <<"priority cannot be nil">>
  ELSE IF issue.priority = "empty" THEN <<"priority name cannot be empty">>
  ELSE IF Len(issue.names) = 0 THEN <<"transitions cannot be empty">>
  ELSE <<>>

ValidJiraIssue(issue) == validateJiraIssue(issue) = <<>>

\* NewStatus (model.go:380-392) of an issue with Fields: a nil Status gives
\* Status{}; statusAcronym panics on the empty Name
NewStatusPanics(issue) == issue.status = "empty"

Transition(jt) ==
  [ID |-> jt.ID, Name |-> jt.To, Acronym |-> statusAcronym(jt.To)]

\* the locals of NewIssues before the loop; panicked: statusAcronym has
\* indexed an empty word
NoTransitions ==
  [transitions |-> <<>>, transitionsByAcronym |-> <<>>,
   orderByTransitionStatus |-> <<>>, panicked |-> FALSE]

\* the inner loop (model.go:306-316), from transition j on: the list, the
\* index by acronym and the index from status name to j, counted from 0;
\* an entry for the same acronym or status replaces the earlier one; a
\* status name with an empty word panics in statusAcronym
RECURSIVE InitTransitions(_, _, _)
InitTransitions(jts, j, st) ==
  IF j > Len(jts) THEN st
  ELSE IF AcronymPanics(jts[j].To) THEN [st EXCEPT !.panicked = TRUE]
  ELSE LET t == Transition(jts[j]) IN
       InitTransitions(jts, j + 1,
         [transitions |-> Append(st.transitions, t),
          transitionsByAcronym |->
            (t.Acronym :> t) @@ st.transitionsByAcronym,
          orderByTransitionStatus |->
            (t.Name :> (j - 1)) @@ st.orderByTransitionStatus,
          panicked |-> FALSE])

\* the initialisation, were it made anew for every issue
InitEvery(jts, st) == InitTransitions(jts, 1, NoTransitions)

\* if len(transitions) == 0 { ... }: only initialize the lists once
InitOnce(jts, st) ==
  IF Len(st.transitions) = 0
    THEN InitTransitions(jts, 1, NoTransitions) ELSE st

\* the outer loop from issue i on: an error of NewIssue returns nil and the
\* error; a panic of the initialisation ends the call
RECURSIVE NewIssuesFrom(_, _, _, _)
NewIssuesFrom(batch, i, result, st) ==
  IF i > Len(batch) THEN [pc |-> "done", out |-> result, err |-> <<>>]
  ELSE IF ~ValidJiraIssue(batch[i])
    THEN [pc |-> "done", out |-> <<>>,
          err |-> Wrapf("NewIssues", validateJiraIssue(batch[i]))]
  ELSE IF NewStatusPanics(batch[i])
    THEN [pc |-> "panic", out |-> <<>>, err |-> <<IndexPanic>>]
  ELSE LET next == InitOnce(JiraTransitions(i, batch[i].names), st) IN
       IF next.panicked
         THEN [pc |-> "panic", out |-> <<>>, err |-> <<IndexPanic>>]
       ELSE NewIssuesFrom(batch, i + 1,
         Append(result,
                [Key |-> i,
                 Transitions |-> next.transitions,
                 TransitionsByAcronym |-> next.transitionsByAcronym,
                 OrderByTransitionStatus |-> next.orderByTransitionStatus]),
         next)

NewIssues(batch) == NewIssuesFrom(batch, 1, <<>>, NoTransitions)

CallNewIssues ==
  /\ ni.pc = "idle"
  /\ \E batch \in Batches :
       LET r == NewIssues(batch) IN
       ni' = [pc |-> r.pc, batch |-> batch, out |-> r.out, err |-> r.err]
  /\ UNCHANGED <<store, cli, srch, crt, od, ed>>

NextNewIssues == CallNewIssues

SpecNewIssues == InitStale /\ [][NextNewIssues]_vars

\* the positions, counted from 0, at which the list has a transition to
\* the status name
PositionsOf(list, name) ==
  {j - 1 : j \in {k \in DOMAIN list : list[k].Name = name}}

\* NewIssues has returned issues
IssuesReturned == ni.pc = "done" /\ ni.err = <<>>

\* C30: the issues NewIssues returns all carry the same list of
\* transitions and the same two indices, made from the transitions of the
\* first issue of the batch; the rank of a status is a position of a
\* transition to it in the list, its only position when one transition
\* leads to it.
C30_SharedTransitions ==
  IssuesReturned
    => LET first == JiraTransitions(1, ni.batch[1].names)
           list == [j \in DOMAIN first |-> Transition(first[j])]
       IN  /\ Len(ni.out) = Len(ni.batch)
           /\ \A i \in DOMAIN ni.out :
                /\ ni.out[i].Transitions = list
                /\ ni.out[i].TransitionsByAcronym
                     = ni.out[1].TransitionsByAcronym
                /\ ni.out[i].OrderByTransitionStatus
                     = ni.out[1].OrderByTransitionStatus
           /\ DOMAIN ni.out[1].TransitionsByAcronym
                = {list[j].Acronym : j \in DOMAIN list}
           /\ \A a \in DOMAIN ni.out[1].TransitionsByAcronym :
                /\ ni.out[1].TransitionsByAcronym[a].Acronym = a
                /\ \E j \in DOMAIN list :
                     list[j] = ni.out[1].TransitionsByAcronym[a]
           /\ DOMAIN ni.out[1].OrderByTransitionStatus
                = {list[j].Name : j \in DOMAIN list}
           /\ \A n \in DOMAIN ni.out[1].OrderByTransitionStatus :
                ni.out[1].OrderByTransitionStatus[n] \in PositionsOf(list, n)
           /\ \A j \in DOMAIN list :
                PositionsOf(list, list[j].Name) = {j - 1}
                  => ni.out[1].OrderByTransitionStatus[list[j].Name] = j - 1

\* two issues with different transitions: both carry those of the first
C30_Witness ==
  /\ IssuesReturned /\ Len(ni.out) = 2
  /\ ni.batch[1].names = <<ToDo, InProgress>>
  /\ ni.batch[2].names = <<InProgress>>
  /\ ni.out[2].Transitions = ni.out[1].Transitions
  /\ ni.out[2].OrderByTransitionStatus[InProgress] = 1
  /\ ni.out[2].TransitionsByAcronym[<<"i", "p">>].ID = <<1, 2>>

(***************************************************************************)
(* NewIssues on raw issues of every shape.                                 *)
(***************************************************************************)
MaxRaw == 2

\* the raw issues: a nil Fields has no Summary, Priority or Status
RawIssues ==
  {r \in [key : BOOLEAN, fields : BOOLEAN, summary : BOOLEAN,
          priority : {"nil", "empty", "named"},
          status : {"nil", "empty", "named"},
          names : {<<>>, <<ToDo>>, << << <<>> >> >>}] :
     ~r.fields => ~r.summary /\ r.priority = "nil" /\ r.status = "nil"}

CallNewIssuesRaw ==
  /\ ni.pc = "idle"
  /\ \E batch \in UNION {[1..k -> RawIssues] : k \in 0..MaxRaw} :
       LET r == NewIssues(batch) IN
       ni' = [pc |-> r.pc, batch |-> batch, out |-> r.out, err |-> r.err]
  /\ UNCHANGED <<store, cli, srch, crt, od, ed>>

NextValidate == CallNewIssuesRaw

SpecValidate == InitStale /\ [][NextValidate]_vars

\* the first raw issue of the batch that validateJiraIssue rejects, 0 if
\* there is none
FirstInvalid(batch) ==
  IF \A i \in DOMAIN batch : ValidJiraIssue(batch[i]) THEN 0
  ELSE CHOOSE i \in DOMAIN batch :
         /\ ~ValidJiraIssue(batch[i])
         /\ \A j \in 1..(i - 1) : ValidJiraIssue(batch[j])

\* C31: when a raw issue of the batch is invalid, NewIssues returns no
\* issues and the validation error of the first invalid one, the checks
\* made in the order empty key, nil fields, empty summary, nil priority,
\* empty priority name, empty transitions; for an empty batch it returns
\* an empty sequence and no error.
C31_FirstInvalidError ==
  ni.pc # "idle"
    => /\ ni.batch = <<>> => ni.pc = "done" /\ ni.out = <<>> /\ ni.err = <<>>
       /\ FirstInvalid(ni.batch) # 0
            => /\ ni.pc = "done" /\ ni.out = <<>>
               /\ ni.err = Wrapf("NewIssues",
                     validateJiraIssue(ni.batch[FirstInvalid(ni.batch)]))
(***************************************************************************)
(* Editor.parseIssue: one row of the edited buffer, against the epics,     *)
(* initiatives and sprints of the snapshot.                                *)
(***************************************************************************)
MaxParents == 2

\* strconv.Atoi of a column: the number, or an error for a column that is
\* not one
Atoi(s) ==
  CASE s = "-1" -> [err |-> FALSE, n |-> -1]
    [] s = "0" -> [err |-> FALSE, n |-> 0]
    [] s = "1" -> [err |-> FALSE, n |-> 1]
    [] s = "2" -> [err |-> FALSE, n |-> 2]
    [] s = "3" -> [err |-> FALSE, n |-> 3]
    [] OTHER -> [err |-> TRUE, n |-> 0]

\* e.data.Epics, e.data.Initiatives, e.data.Sprints with n entries
Entries(kind, n) == [i \in 1..n |-> <<kind, i>>]

\* parseIssue: the three conversions, the two range checks, then the
\* custom fields; s[i - 1] of a slice panics when i - 1 is not below
\* len(s)
parseIssue(in) ==
  LET parentIndex == Atoi(in.columns[1])
      sprintIndex == Atoi(in.columns[2])
      parents == IF in.issueType = "Epic" THEN in.Initiatives ELSE in.Epics
      none == [Epics |-> <<>>, ParentLink |-> <<>>, Sprints |-> <<>>]
      fail(e) == [pc |-> "done", out |-> <<>>, err |-> e]
  IN  IF parentIndex.err \/ sprintIndex.err THEN fail("strconv.Atoi")
      ELSE IF in.columns[4] = "x" THEN fail("strconv.ParseFloat")
      ELSE IF parentIndex.n < 0 \/ parentIndex.n > Len(parents)
        THEN fail("epic or initiative does not exist")
      ELSE IF sprintIndex.n < 0 \/ sprintIndex.n > Len(in.Sprints)
        THEN fail("sprint does not exist")
      ELSE IF /\ parentIndex.n # 0 /\ in.issueType = in.configType
              /\ parentIndex.n > Len(in.Epics)
        THEN [pc |-> "panic", out |-> <<>>, err |-> IndexPanic]
      ELSE [pc |-> "done", err |-> "",
            out |-> [none EXCEPT
              !.Epics = IF parentIndex.n # 0 /\ in.issueType = in.configType
                          THEN in.Epics[parentIndex.n] ELSE <<>>,
              !.ParentLink = IF parentIndex.n # 0 /\ in.issueType = "Epic"
                               THEN in.Initiatives[parentIndex.n] ELSE <<>>,
              !.Sprints = IF sprintIndex.n # 0
                            THEN in.Sprints[sprintIndex.n] ELSE <<>>]]

\* OpenIssueEditor parses with the configured issue type, OpenEpicEditor
\* with "Epic"
CallParseIssue ==
  /\ ed.pc = "idle"
  /\ \E parent \in {"-1", "0", "1", "2", "3", "x"},
        sprint \in {"-1", "0", "1", "2", "3", "x"},
        points \in {"1.5", "x"},
        nE \in 0..MaxParents, nI \in 0..MaxParents, nS \in 0..MaxParents,
        configType \in {"Story", "Epic"}, issueType \in {"Story", "Epic"} :
       /\ issueType \in {configType, "Epic"}
       /\ LET in == [columns |-> <<parent, sprint, "summary", points, "">>,
                     Epics |-> Entries("epic", nE),
                     Initiatives |-> Entries("initiative", nI),
                     Sprints |-> Entries("sprint", nS),
                     configType |-> configType, issueType |-> issueType]
              r == parseIssue(in)
          IN  ed' = [IdleEd EXCEPT !.pc = r.pc, !.op = "parseIssue",
                                   !.in = in, !.out = r.out, !.err = r.err]
  /\ UNCHANGED <<store, cli, srch, crt, od, ni>>

NextParse == CallParseIssue

SpecParse == InitStale /\ [][NextParse]_vars

\* parseIssue was called on a row whose three numbers parse
ParsedRow ==
  /\ ed.op = "parseIssue"
  /\ ~Atoi(ed.in.columns[1]).err /\ ~Atoi(ed.in.columns[2]).err
  /\ ed.in.columns[4] # "x"

\* C32: on a row whose numbers parse, parseIssue returns the parent
\* mismatch exactly when the parent index is negative or above the number
\* of parents (the initiatives for an epic, the epics otherwise), and,
\* the parent index being in range, the sprint mismatch exactly when the
\* sprint index is negative or above the number of sprints; index 0 leaves
\* the field unset, index k sets it from the k-th entry, and no index
\* outside the sequences is dereferenced.
C32_IndexChecks ==
  ParsedRow
    => LET pi == Atoi(ed.in.columns[1]).n
           si == Atoi(ed.in.columns[2]).n
           parents == IF ed.in.issueType = "Epic"
                        THEN ed.in.Initiatives ELSE ed.in.Epics
           pbad == pi < 0 \/ pi > Len(parents)
           sbad == si < 0 \/ si > Len(ed.in.Sprints)
       IN  /\ ed.pc # "panic"
           /\ ed.err = "epic or initiative does not exist" <=> pbad
           /\ ~pbad => (ed.err = "sprint does not exist" <=> sbad)
           /\ ~pbad /\ ~sbad
                => /\ ed.err = ""
                   /\ ed.out.Sprints
                        = IF si = 0 THEN <<>> ELSE ed.in.Sprints[si]
                   /\ ed.in.issueType = "Epic"
                        => ed.out.ParentLink
                             = IF pi = 0 THEN <<>> ELSE parents[pi]
                   /\ ed.in.issueType # "Epic"
                        => ed.out.Epics
                             = IF pi = 0 THEN <<>> ELSE parents[pi]
(***************************************************************************)
(* The end of CreateIssues (jira.go:216-224) and kong branch                *)
(* (cmd/kong.go:290-312) beside the daemon: the daemon is process 1, the   *)
(* foreground commands are run by process 2.                               *)
(***************************************************************************)
\* g.Wait() has returned nil and the last issue created is KeyOf(p):
\* data, err := LoadData()
CrLoadData(p) ==
  /\ proc[p].pc = "idle"
  /\ SetProc(p, LdStat([IdleProc EXCEPT !.op = "create"]))
  /\ UNCHANGED <<clock, path, ino, written, loaders, grp, stl, others>>

\* data.LastIssueCreated = lastIssueCreated; return data.WriteFile()
CrWriteFile(p) ==
  /\ proc[p].pc = "cr_set"
  /\ SetProc(p, [proc[p] EXCEPT !.pc = "wf_open",
                   !.data = [@ EXCEPT !.LastIssueCreated = KeyOf(p)]])
  /\ UNCHANGED <<clock, path, ino, written, loaders, grp, stl, others>>

\* kong branch after CreateIssues has returned nil: data, err := LoadData()
BranchLoadData(p) ==
  /\ proc[p].op = "create" /\ proc[p].pc = "done" /\ proc[p].err = ""
  /\ SetProc(p, LdStat([IdleProc EXCEPT !.op = "branch"]))
  /\ UNCHANGED <<clock, path, ino, written, loaders, grp, stl, others>>

ForegroundProcs == {2}

\* the step meets no failure of the remote or of the file system: the
\* remote answers every request with what was asked for (NewJira, the six
\* loaders, a board for the board lookup), and flock.Lock, os.Create and
\* Encode return nil
Succeeds ==
  /\ \A q \in Procs :
       /\ proc'[q].err \notin {"NewJira", "Lock", "Create", "Encode",
                               IndexPanic, NilRespPanic}
       /\ ~proc'[q].lockerr
  /\ \A l \in LoaderNames :
       /\ loaders'[l].st # "err"
       /\ loaders'[l].st = "ok" => loaders'[l].got = Rev
  /\ grp'.err = ""

DaemonStep(p) ==
  /\ \/ StoreStep(p) \/ DmLoad(p) \/ DmWait(p) \/ DmSleep(p)
     \/ LoaderStep(p)
  /\ Succeeds

ForegroundStep(p) == StoreStep(p) /\ Succeeds

NextForeground ==
  \/ \E p \in DaemonProcs : StartDaemon(p) \/ DaemonStep(p)
  \/ \E p \in ForegroundProcs :
       \/ CrLoadData(p) \/ CrWriteFile(p) \/ BranchLoadData(p)
       \/ ForegroundStep(p)

SpecForeground == InitStore /\ [][NextForeground]_vars

\* kong branch has loaded the snapshot
BranchLoaded(p) ==
  proc[p].op = "branch" /\ proc[p].pc = "done" /\ proc[p].err = ""

\* C33: a LoadData after CreateIssues has returned nil gives the key that
\* CreateIssues created as LastIssueCreated, whatever the daemon did in
\* between.
C33_LastIssueKept ==
  \A p \in ForegroundProcs :
    BranchLoaded(p) => proc[p].data.LastIssueCreated = KeyOf(p)
\* C35: a write that completes its encoding puts a snapshot on disk whose
\* timestamp is not older than that of any snapshot written before it or
\* found on disk at the start.
C35_TimestampMonotone ==
  [][\A p \in Procs :
       proc[p].pc = "wf_value" /\ proc'[p].pc = "wf_return"
         /\ proc'[p].err = ""
       => \A w \in written : proc[p].data.Timestamp >= w.Timestamp]_vars
(***************************************************************************)
(* search against a remote that answers every page request, and hands out  *)
(* visible of the total issues it reports (resp.Total counts the matches,  *)
(* the page holds the issues the remote hands out from startAt on).        *)
(***************************************************************************)
SearchStartShort ==
  /\ srch.pc = "idle"
  /\ \E total \in 0..MaxTotal, maxResults \in 1..MaxPage :
       \E visible \in 0..total :
         srch' = [IdleSrch EXCEPT !.pc = "page", !.total = total,
                                  !.visible = visible,
                                  !.maxResults = maxResults]
  /\ UNCHANGED <<store, cli, crt, od, ni, ed>>

\* a turn of the loop whose page request is answered
SearchPageOk == SearchPage /\ srch'.err = ""

NextSearchLive == SearchStartShort \/ SearchPageOk \/ SearchConvert

\* search runs in one goroutine, which is always scheduled
SpecSearchLive ==
  /\ InitStale /\ [][NextSearchLive]_vars
  /\ WF_vars(SearchPageOk) /\ WF_vars(SearchConvert)

\* C34: against a remote that answers every page request, a call of
\* search ends, also when a page is empty before total issues are there.
C34_SearchTerminates ==
  (srch.pc = "page") ~> (srch.pc \in {"done", "panic"})
(***************************************************************************)
(* The daemon alone, with a remote and a file system that do not fail;     *)
(* the daemon process and its goroutines are always scheduled.             *)
(***************************************************************************)
NextDaemonLive == \E p \in DaemonProcs : StartDaemon(p) \/ DaemonStep(p)

SpecDaemonLive ==
  /\ InitStore /\ [][NextDaemonLive]_vars
  /\ \A p \in DaemonProcs : WF_vars(DaemonStep(p))

\* C37: whatever the snapshot file held, once the daemon is started a
\* complete fresh snapshot is eventually on disk.
C37_EventuallyFresh ==
  (\E p \in DaemonProcs : IsDaemon(p)) ~> FreshOnDisk
(***************************************************************************)
(* Editor.OpenSprintEditor: the rows of the edited buffer are turned into  *)
(* backlog moves and transitions, which are then sent to the remote.       *)
(***************************************************************************)
MaxRows == 2

backlogAcronym == "ice"

\* e.data.IssueByKey: for every issue of the snapshot its status acronym
\* and its transitions, indexed by acronym
IssueByKey ==
  ("KONG-1" :> [Status |-> [Acronym |-> "td"],
                TransitionsByAcronym |-> ("ip" :> "11") @@ ("d" :> "12")])
    @@ ("KONG-2" :> [Status |-> [Acronym |-> "ip"],
                     TransitionsByAcronym |-> ("td" :> "21") @@ ("d" :> "22")])

\* the lines an edited buffer is made of: a comment or an empty line, or
\* a line of n white-space separated fields that starts with an action
\* and a key
BufferLines ==
  {[comment |-> TRUE, action |-> "", key |-> "", n |-> 0]}
    \cup {[comment |-> FALSE, action |-> a, key |-> k, n |-> n] :
            a \in {"td", "ip", "d", backlogAcronym, "zz"},
            k \in {"KONG-1", "KONG-2", "KONG-9"}, n \in {2, 3}}

\* parseLines: the lines that are neither comments nor empty
parseLines(b) == SelectSeq(b, LAMBDA line : ~line.comment)

\* parseActionColumns: every line has at least three fields
parseActionColumns(lines) ==
  IF \E i \in DOMAIN lines : lines[i].n < 3
    THEN [columns |-> <<>>, err |-> "missing column"]
    ELSE [columns |-> lines, err |-> ""]

\* the body of the loop over the rows, were an unknown action skipped
RowLax(row) ==
  IF row.key \notin DOMAIN IssueByKey THEN "unknownIssue"
  ELSE IF row.action = IssueByKey[row.key].Status.Acronym THEN "skip"
  ELSE IF row.action = backlogAcronym THEN "backlog"
  ELSE IF row.action \notin DOMAIN IssueByKey[row.key].TransitionsByAcronym
    THEN "skip"
  ELSE "transition"

\* the body of the loop over the rows: what a row asks for
Row(row) ==
  IF row.key \notin DOMAIN IssueByKey THEN "unknownIssue"
  ELSE IF row.action = IssueByKey[row.key].Status.Acronym THEN "skip"
  ELSE IF row.action = backlogAcronym THEN "backlog"
  ELSE IF row.action \notin DOMAIN IssueByKey[row.key].TransitionsByAcronym
    THEN "unknownTransition"
  ELSE "transition"

\* the loop over the rows from row i on: the first unknown key or action
\* returns its error; acc holds moveIssuesToBacklog and issueTransitions
RECURSIVE Rows(_, _, _)
Rows(columns, i, acc) ==
  IF i > Len(columns) THEN acc
  ELSE LET row == columns[i]
           what == Row(row)
       IN  IF what = "unknownIssue"
             THEN [acc EXCEPT !.err = "issue does not exist"]
           ELSE IF what = "unknownTransition"
             THEN [acc EXCEPT !.err = "transition does not exist"]
           ELSE IF what = "skip" THEN Rows(columns, i + 1, acc)
           ELSE IF what = "backlog"
             THEN Rows(columns, i + 1,
                    [acc EXCEPT !.moveIssuesToBacklog = Append(@, row.key)])
           ELSE Rows(columns, i + 1,
                  [acc EXCEPT !.issueTransitions =
                     Append(@, [issueKey |-> row.key,
                                transition |->
                                  IssueByKey[row.key]
                                    .TransitionsByAcronym[row.action]])])

NoRows == [moveIssuesToBacklog |-> <<>>, issueTransitions |-> <<>>,
           err |-> "", pending |-> {}]

\* OpenSprintEditor up to the remote calls: an empty buffer returns nil, a
\* short line or an unknown key or action returns the error
CallOpenSprintEditor ==
  /\ ed.pc = "idle"
  /\ \E b \in UNION {[1..k -> BufferLines] : k \in 0..MaxRows} :
       LET lines == parseLines(b)
           parsed == parseActionColumns(lines)
           acc == Rows(parsed.columns, 1, NoRows)
           call == [IdleEd EXCEPT !.op = "OpenSprintEditor", !.in = b]
           return(e) == [call EXCEPT !.pc = "done", !.err = e]
       IN  ed' = IF Len(lines) = 0 THEN return("")
                 ELSE IF parsed.err # "" THEN return(parsed.err)
                 ELSE IF acc.err # "" THEN return(acc.err)
                 ELSE [call EXCEPT !.pc = "se_backlog", !.out = acc]
  /\ UNCHANGED <<store, cli, srch, crt, od, ni>>

\* MoveIssuesToBacklog: no request for no keys; a failed request returns
\* the error of parseResponseError, which reads the body of a response
\* that may be nil
SeMoveIssuesToBacklog ==
  /\ ed.pc = "se_backlog"
  /\ \E ans \in {"ok", "err", "nil"} :
       LET keys == ed.out.moveIssuesToBacklog
           a == IF Len(keys) = 0 THEN "none" ELSE ans
           call == [fn |-> "MoveIssuesToBacklog", arg |-> keys, ans |-> a]
       IN  ed' = [ed EXCEPT
             !.calls = Append(@, call),
             !.pc = CASE a \in {"none", "ok"} -> "se_transitions"
                      [] a = "err" -> "done"
                      [] a = "nil" -> "panic",
             !.err = CASE a \in {"none", "ok"} -> ""
                       [] a = "err" -> "MoveIssuesToBacklog"
                       [] a = "nil" -> NilRespPanic]
  /\ UNCHANGED <<store, cli, srch, crt, od, ni>>

\* TransitionIssues: one goroutine of the group for every transition
SeTransitionIssues ==
  /\ ed.pc = "se_transitions"
  /\ ed' = [ed EXCEPT
       !.pc = "se_wait",
       !.out.pending = DOMAIN ed.out.issueTransitions,
       !.calls = Append(@, [fn |-> "TransitionIssues",
                            arg |-> ed.out.issueTransitions, ans |-> ""])]
  /\ UNCHANGED <<store, cli, srch, crt, od, ni>>

\* a goroutine of the group sends its transition; the group keeps the
\* first error
SeDoTransition ==
  /\ ed.pc = "se_wait"
  /\ \E i \in ed.out.pending, ans \in {"ok", "err", "nil"} :
       ed' = [ed EXCEPT
         !.out.pending = @ \ {i},
         !.out.err = IF ans = "err" /\ @ = "" THEN "TranitionIssues" ELSE @,
         !.pc = IF ans = "nil" THEN "panic" ELSE @,
         !.err = IF ans = "nil" THEN NilRespPanic ELSE @,
         !.calls = Append(@, [fn |-> "DoTransition",
                              arg |-> ed.out.issueTransitions[i],
                              ans |-> ans])]
  /\ UNCHANGED <<store, cli, srch, crt, od, ni>>

\* g.Wait(): every goroutine has returned
SeWait ==
  /\ ed.pc = "se_wait"
  /\ ed.out.pending = {}
  /\ ed' = [ed EXCEPT !.pc = "done", !.err = ed.out.err]
  /\ UNCHANGED <<store, cli, srch, crt, od, ni>>

NextSprintEditor ==
  \/ CallOpenSprintEditor
  \/ SeMoveIssuesToBacklog
  \/ SeTransitionIssues
  \/ SeDoTransition
  \/ SeWait

SpecSprintEditor == InitStale /\ [][NextSprintEditor]_vars

\* the row names a key that is not in issue_by_key, or an action that is
\* not the status acronym of its issue, the backlog acronym or the acronym
\* of one of its transitions
InvalidRow(row) ==
  \/ row.key \notin DOMAIN IssueByKey
  \/ row.action \notin
       {IssueByKey[row.key].Status.Acronym, backlogAcronym}
         \cup DOMAIN IssueByKey[row.key].TransitionsByAcronym

\* the call of fn is in the record of remote calls at position i
CalledAt(fn, i) == i \in DOMAIN ed.calls /\ ed.calls[i].fn = fn

\* C39: when a row of the edited buffer is invalid, OpenSprintEditor
\* returns an error and has called neither MoveIssuesToBacklog nor
\* TransitionIssues; otherwise the backlog move comes before every
\* transition, and after a failed backlog move no transition is sent.
C39_ValidatedBeforeMutation ==
  ed.op = "OpenSprintEditor"
    => LET rows == parseLines(ed.in) IN
       /\ (\E i \in DOMAIN rows : InvalidRow(rows[i]))
            => /\ ed.calls = <<>>
               /\ ed.pc = "done" /\ ed.err # ""
       /\ \A i, j \in DOMAIN ed.calls :
            /\ CalledAt("MoveIssuesToBacklog", i)
            /\ ed.calls[j].fn \in {"TransitionIssues", "DoTransition"}
            => i < j
       /\ (\E i \in DOMAIN ed.calls :
             /\ CalledAt("MoveIssuesToBacklog", i)
             /\ ed.calls[i].ans \in {"err", "nil"})
            => /\ \A j \in DOMAIN ed.calls :
                    ed.calls[j].fn \notin {"TransitionIssues", "DoTransition"}
               /\ ed.pc \in {"done", "panic"} /\ ed.err # ""

\* a buffer whose first row asks for a transition and whose second row
\* names an unknown action has been turned down
C39_Witness ==
  /\ ed.op = "OpenSprintEditor" /\ ed.pc = "done"
  /\ Len(ed.in) = 2
  /\ ~ed.in[1].comment /\ Row(ed.in[1]) = "transition"
  /\ ~ed.in[2].comment /\ ed.in[2].n = 3 /\ ed.in[1].n = 3
  /\ ed.in[2].key \in DOMAIN IssueByKey /\ InvalidRow(ed.in[2])
  /\ ed.err = "transition does not exist"
====
